---- MODULE Spec2Model ----
(***************************************************************************)
(* riweather: the ISD record decoder (parser.py) and the rollup engine     *)
(* (stations.py).                                                          *)
(*                                                                         *)
(* Text is a sequence of one-character strings.  The modelled alphabet is  *)
(* ASCII: digits, "+", "-", ".", "_", " ", tab, newline and upper-case     *)
(* letters other than "E" (no exponent notation is modelled in float()).   *)
(* A Python value is a record [k, s, n, d]: k is its kind ("none", "str",  *)
(* "int", "float", "nan", "inf", "err"), s its text, n/d its number.  A    *)
(* float is the exact rational n/d in lowest terms with d > 0; the         *)
(* rounding of IEEE doubles is not modelled.                               *)
(***************************************************************************)
EXTENDS Integers, Sequences, FiniteSets, TLC

VARIABLES
    v_in,       \* missing_if_all_nines: the raw token of the last call ("v")
    sf_in,      \* missing_if_all_nines: its scaling_factor
    decoded,    \* missing_if_all_nines: what the call returned or raised
    line,       \* parse_line: the text of the last call
    rec,        \* parse_line: the ISDRecord returned, or the error raised
    series,     \* rollup: the input samples, a sequence of [t, v] sorted by t
    period,     \* rollup: the period, in minutes
    upsample_first, \* rollup: the upsample_first flag
    rollup,     \* rollup: the function called ("" before the call)
    rolled,     \* rollup: the rows returned, a sequence of [t, v], or the error
    call,       \* fetch_data: the arguments of the call
    server,     \* fetch_data: the NOAA server, its files by year
    fetch,      \* fetch_data: where the call stands, what it has read so far
    result,     \* fetch_data: the table returned, or the error raised
    ftp,        \* NOAAFTPConnection: self.ftp ("None", or the state of the FTP instance)
    with_block, \* NOAAFTPConnection: where the with statement using it stands
    reply       \* NOAAFTPConnection: what its last method call returned or raised

vars == <<v_in, sf_in, decoded, line, rec, series, period, upsample_first, rollup,
          rolled, call, server, fetch, result, ftp, with_block, reply>>

codecVars == <<v_in, sf_in, decoded>>
parserVars == <<line, rec>>
rollupVars == <<series, period, upsample_first, rollup, rolled>>
fetchVars == <<call, server, fetch, result>>
connVars == <<ftp, with_block, reply>>

----------------------------------------------------------------------------
(* Python values *)

None == [k |-> "none", s |-> <<>>, n |-> 0, d |-> 1]
StrV(t) == [k |-> "str", s |-> t, n |-> 0, d |-> 1]
IntV(i) == [k |-> "int", s |-> <<>>, n |-> i, d |-> 1]
NanV == [k |-> "nan", s |-> <<>>, n |-> 0, d |-> 1]
InfV(sign) == [k |-> "inf", s |-> <<>>, n |-> sign, d |-> 1]
ErrV(e) == [k |-> "err", s |-> <<e>>, n |-> 0, d |-> 1]
NotCalled == [k |-> "notcalled", s |-> <<>>, n |-> 0, d |-> 1]

Abs(i) == IF i < 0 THEN -i ELSE i

RECURSIVE GCD(_, _)
GCD(a, b) == IF b = 0 THEN a ELSE GCD(b, a % b)

\* The float num/den (den # 0), in lowest terms with a positive denominator.
FloatV(num, den) ==
    LET g == GCD(Abs(num), Abs(den))
        sgn == IF den < 0 THEN -1 ELSE 1
    IN [k |-> "float", s |-> <<>>, n |-> sgn * (num \div g), d |-> sgn * (den \div g)]

IsErr(x) == x.k = "err"

----------------------------------------------------------------------------
(* Text helpers *)

Digits == {"0", "1", "2", "3", "4", "5", "6", "7", "8", "9"}
Letters == {"A", "B", "C", "D", "F", "G", "H", "I", "J", "K", "L", "M", "N",
            "O", "P", "Q", "R", "S", "T", "U", "V", "W", "X", "Y", "Z"}
Whitespace == {" ", "\t", "\n"}

DigitVal(c) ==
    CASE c = "0" -> 0 [] c = "1" -> 1 [] c = "2" -> 2 [] c = "3" -> 3
      [] c = "4" -> 4 [] c = "5" -> 5 [] c = "6" -> 6 [] c = "7" -> 7
      [] c = "8" -> 8 [] c = "9" -> 9

\* s[a:b] of Python, 0-indexed and half-open, clipped to the text's length.
PySlice(s, a, b) ==
    LET hi == IF b < Len(s) THEN b ELSE Len(s)
    IN IF a >= hi THEN <<>> ELSE SubSeq(s, a + 1, hi)

\* str.strip(): leading and trailing whitespace removed.
RECURSIVE LStrip(_)
LStrip(s) == IF s # <<>> /\ Head(s) \in Whitespace THEN LStrip(Tail(s)) ELSE s

RECURSIVE RStrip(_)
RStrip(s) ==
    IF s # <<>> /\ s[Len(s)] \in Whitespace THEN RStrip(SubSeq(s, 1, Len(s) - 1)) ELSE s

Strip(s) == RStrip(LStrip(s))

\* re.search(r"^[-+]?9+$", v): "$" also matches before one trailing newline.
AllNines(s) == s # <<>> /\ \A i \in 1..Len(s) : s[i] = "9"

MatchesSentinel(v) ==
    LET body == IF v # <<>> /\ v[Len(v)] = "\n" THEN SubSeq(v, 1, Len(v) - 1) ELSE v
        unsigned == IF body # <<>> /\ Head(body) \in {"-", "+"} THEN Tail(body) ELSE body
    IN AllNines(unsigned)

----------------------------------------------------------------------------
(* float(str), parser.py:19 *)

\* A run of digits in which single underscores may separate digits.
IsDigitPart(s) ==
    /\ s # <<>>
    /\ s[1] \in Digits
    /\ s[Len(s)] \in Digits
    /\ \A i \in 1..Len(s) : s[i] \in Digits \cup {"_"}
    /\ \A i \in 1..(Len(s) - 1) : ~(s[i] = "_" /\ s[i + 1] = "_")

RECURSIVE DigitsValue(_)
DigitsValue(s) ==
    IF s = <<>> THEN 0
    ELSE IF s[Len(s)] = "_" THEN DigitsValue(SubSeq(s, 1, Len(s) - 1))
    ELSE 10 * DigitsValue(SubSeq(s, 1, Len(s) - 1)) + DigitVal(s[Len(s)])

NumDigits(s) == Cardinality({i \in 1..Len(s) : s[i] \in Digits})

RECURSIVE Pow10(_)
Pow10(e) == IF e = 0 THEN 1 ELSE 10 * Pow10(e - 1)

DotPositions(s) == {i \in 1..Len(s) : s[i] = "."}

\* float() of digits "." digits, either part possibly empty but not both.
ParseDecimal(sgn, ip, fp) ==
    IF /\ (ip = <<>> \/ IsDigitPart(ip))
       /\ (fp = <<>> \/ IsDigitPart(fp))
       /\ ~(ip = <<>> /\ fp = <<>>)
    THEN FloatV(sgn * (DigitsValue(ip) * Pow10(NumDigits(fp)) + DigitsValue(fp)),
                Pow10(NumDigits(fp)))
    ELSE ErrV("ValueError")

TheDot(body) == CHOOSE i \in DotPositions(body) : TRUE

\* float() of a text without its sign.
ParseUnsigned(sgn, body) ==
    IF body \in {<<"I", "N", "F">>, <<"I", "N", "F", "I", "N", "I", "T", "Y">>}
      THEN InfV(sgn)
    ELSE IF body = <<"N", "A", "N">> THEN NanV
    ELSE IF DotPositions(body) = {} THEN
      IF IsDigitPart(body) THEN FloatV(sgn * DigitsValue(body), 1)
      ELSE ErrV("ValueError")
    ELSE IF Cardinality(DotPositions(body)) > 1 THEN ErrV("ValueError")
    ELSE ParseDecimal(sgn, SubSeq(body, 1, TheDot(body) - 1),
                      SubSeq(body, TheDot(body) + 1, Len(body)))

\* float() of a text without surrounding whitespace.
ParseStripped(t) ==
    ParseUnsigned(IF t # <<>> /\ Head(t) = "-" THEN -1 ELSE 1,
                  IF t # <<>> /\ Head(t) \in {"-", "+"} THEN Tail(t) ELSE t)

\* float(s) for a text s: the number, or ValueError.
ParseFloat(s) == ParseStripped(Strip(s))

\* x / scaling_factor for a float x.
FloatDiv(x, sf) == IF x.k = "float" THEN FloatV(x.n, x.d * sf) ELSE x

----------------------------------------------------------------------------
(* missing_if_all_nines, parser.py:10-21 *)

DecodeStripped_unsigned(t, sf) ==
    IF AllNines(t) THEN None
    ELSE IF sf # 1 THEN FloatDiv(ParseFloat(t), sf)
    ELSE StrV(t)

DecodeStripped_unscaled(t, sf) ==
    IF MatchesSentinel(t) THEN None
    ELSE IF sf # 1 THEN ParseFloat(t)
    ELSE StrV(t)

\* missing_if_all_nines after v = v.strip(), parser.py:15-21.
DecodeStripped(t, sf) ==
    IF MatchesSentinel(t) THEN None
    ELSE IF sf # 1 THEN FloatDiv(ParseFloat(t), sf)
    ELSE StrV(t)

\* The value returned for the text v, or the ValueError raised by float().
missing_if_all_nines(v, sf) == DecodeStripped(Strip(v), sf)

----------------------------------------------------------------------------
(* pydantic's conversion of a str to an int field (lax mode), parser.py:31 *)

\* [+-]?digits, as Rust's str::parse::<i64> reads it.
IsI64Text(s) ==
    LET body == IF s # <<>> /\ Head(s) \in {"-", "+"} THEN Tail(s) ELSE s
    IN body # <<>> /\ \A i \in 1..Len(body) : body[i] \in Digits

I64Value(s) ==
    IF Head(s) = "-" THEN -DigitsValue(Tail(s))
    ELSE IF Head(s) = "+" THEN DigitsValue(Tail(s))
    ELSE DigitsValue(s)

RemoveUnderscores(s) == SelectSeq(s, LAMBDA c : c # "_")

FirstDot(t) == CHOOSE i \in DotPositions(t) : \A j \in DotPositions(t) : i <= j

\* A text, or the absence of one.
Cleaned(s) == [ok |-> TRUE, s |-> s]
NotCleaned == [ok |-> FALSE, s |-> <<>>]

\* The first position after a leading "0" that holds neither "0" nor "_"
\* (Len(s) + 1 when there is none).
AfterZeros(s) ==
    IF \A i \in 2..Len(s) : s[i] \in {"0", "_"} THEN Len(s) + 1
    ELSE CHOOSE i \in 2..Len(s) :
             s[i] \notin {"0", "_"} /\ \A j \in 2..(i - 1) : s[j] \in {"0", "_"}

\* The text from position i on, i being the end of the leading zeros: a digit
\* or "-" starts the rest, a "." keeps the character before it, a text of
\* zeros and underscores keeps its last character, anything else fails.
ZerosStrippedAt(s, i) ==
    IF i > Len(s) THEN Cleaned(<<s[Len(s)]>>)
    ELSE IF s[i] \in Digits \cup {"-"} THEN Cleaned(SubSeq(s, i, Len(s)))
    ELSE IF s[i] = "." THEN Cleaned(SubSeq(s, i - 1, Len(s)))
    ELSE NotCleaned

\* Leading zeros, and the underscores among them, are skipped; a text that
\* starts with a digit 1-9 is kept whole; any other start fails.
strip_leading_zeros(s) ==
    IF s = <<>> THEN NotCleaned
    ELSE IF s[1] \in Digits \ {"0"} THEN Cleaned(s)
    ELSE IF s[1] # "0" THEN NotCleaned
    ELSE ZerosStrippedAt(s, AfterZeros(s))

\* A "." followed by one or more zeros and nothing else is cut off.
strip_decimal_zeros(s) ==
    IF /\ DotPositions(s) # {}
       /\ FirstDot(s) < Len(s)
       /\ \A i \in (FirstDot(s) + 1)..Len(s) : s[i] = "0"
    THEN SubSeq(s, 1, FirstDot(s) - 1)
    ELSE s

\* Underscores are removed unless one starts or ends the text or two are
\* adjacent.
strip_underscores(s) ==
    IF \/ s = <<>>
       \/ Head(s) = "_"
       \/ s[Len(s)] = "_"
       \/ \E i \in 1..(Len(s) - 1) : s[i] = "_" /\ s[i + 1] = "_"
    THEN s
    ELSE RemoveUnderscores(s)

CleanedDigits(z) ==
    IF z.ok THEN Cleaned(strip_underscores(strip_decimal_zeros(z.s))) ELSE NotCleaned

Negated(c) == IF c.ok THEN Cleaned(<<"-">> \o c.s) ELSE NotCleaned

\* The text after a leading "+": a "-" is set aside and put back in front of
\* the cleaned digits; "--" and "-+" fail.
CleanedSigned(s) ==
    IF s # <<>> /\ Head(s) = "-"
    THEN IF Tail(s) # <<>> /\ Head(Tail(s)) \in {"-", "+"} THEN NotCleaned
         ELSE Negated(CleanedDigits(strip_leading_zeros(Tail(s))))
    ELSE CleanedDigits(strip_leading_zeros(s))

\* The text cleaned for a second reading: a leading "+" is dropped ("+-"
\* fails), then the sign, the leading zeros, the decimal zeros and the
\* underscores are dealt with in that order.
clean_int_str(t) ==
    IF t # <<>> /\ Head(t) = "+"
    THEN IF Tail(t) # <<>> /\ Head(Tail(t)) = "-" THEN NotCleaned
         ELSE CleanedSigned(Tail(t))
    ELSE CleanedSigned(t)

\* The cleaned text is read strictly: an optional "-", then "0" alone or
\* digits that do not start with "0" ("-0" is 0, "-09" fails).
IsCleanedInt(s) ==
    /\ IsI64Text(s)
    /\ Head(s) # "+"
    /\ \/ Head(s) = "-" /\ (Len(s) = 2 \/ s[2] # "0")
       \/ Head(s) # "-" /\ (Len(s) = 1 \/ s[1] # "0")

ParsedCleaned(c) ==
    IF c.ok /\ IsCleanedInt(c.s) THEN IntV(I64Value(c.s)) ELSE ErrV("ValidationError")

\* The int a trimmed text validates to, or the int_parsing ValidationError:
\* the text is read as an i64 (leading zeros allowed); failing that, the
\* cleaned text is read strictly.
IntFromStripped(t) ==
    IF IsI64Text(t) THEN IntV(I64Value(t)) ELSE ParsedCleaned(clean_int_str(t))

\* The int a text validates to: pydantic trims it first.
IntFromStr(s) == IntFromStripped(Strip(s))

----------------------------------------------------------------------------
(* ControlData.parse_datetime, parser.py:70-93 *)

\* A datetime value: year, month, day, hour, minute, second and time zone.
DateV_naive(y, mo, dd, h, mi) ==
    [k |-> "datetime", s |-> <<y, mo, dd, h, mi, 0, "naive">>, n |-> 0, d |-> 1]

DateV(y, mo, dd, h, mi) ==
    [k |-> "datetime", s |-> <<y, mo, dd, h, mi, 0, "UTC">>, n |-> 0, d |-> 1]

IsLeap(y) == (y % 4 = 0 /\ y % 100 # 0) \/ y % 400 = 0

DaysInMonth(y, mo) ==
    IF mo = 2 THEN (IF IsLeap(y) THEN 29 ELSE 28)
    ELSE IF mo \in {4, 6, 9, 11} THEN 30 ELSE 31

\* The alternatives of strptime's regular expressions for %m, %d, %H, %M, tried
\* in their order: the two-character ones before the one-character one.
MatchesMonth(t) ==
    \/ Len(t) = 2 /\ t[1] = "1" /\ t[2] \in {"0", "1", "2"}
    \/ Len(t) = 2 /\ t[1] = "0" /\ t[2] \in Digits \ {"0"}
    \/ Len(t) = 1 /\ t[1] \in Digits \ {"0"}

MatchesDay(t) ==
    \/ Len(t) = 2 /\ t[1] = "3" /\ t[2] \in {"0", "1"}
    \/ Len(t) = 2 /\ t[1] \in {"1", "2"} /\ t[2] \in Digits
    \/ Len(t) = 2 /\ t[1] = "0" /\ t[2] \in Digits \ {"0"}
    \/ Len(t) = 1 /\ t[1] \in Digits \ {"0"}
    \/ Len(t) = 2 /\ t[1] = " " /\ t[2] \in Digits \ {"0"}

MatchesHour(t) ==
    \/ Len(t) = 2 /\ t[1] = "2" /\ t[2] \in {"0", "1", "2", "3"}
    \/ Len(t) = 2 /\ t[1] \in {"0", "1"} /\ t[2] \in Digits
    \/ Len(t) = 1 /\ t[1] \in Digits

MatchesMinute(t) ==
    \/ Len(t) = 2 /\ t[1] \in {"0", "1", "2", "3", "4", "5"} /\ t[2] \in Digits
    \/ Len(t) = 1 /\ t[1] \in Digits

\* The widths <<m, d, H, M>> of the regular expression's matches on the text
\* after the four year digits, in the order the regex engine finds them.
MatchWidths(t) ==
    { w \in [1..4 -> {1, 2}] :
        /\ 4 + w[1] + w[2] + w[3] + w[4] <= Len(t)
        /\ MatchesMonth(PySlice(t, 4, 4 + w[1]))
        /\ MatchesDay(PySlice(t, 4 + w[1], 4 + w[1] + w[2]))
        /\ MatchesHour(PySlice(t, 4 + w[1] + w[2], 4 + w[1] + w[2] + w[3]))
        /\ MatchesMinute(PySlice(t, 4 + w[1] + w[2] + w[3], 4 + w[1] + w[2] + w[3] + w[4])) }

\* w is tried before u: at the first group where they differ w takes the
\* two-character alternative.
TriedBefore(w, u) ==
    \E i \in 1..4 : w[i] > u[i] /\ \A j \in 1..(i - 1) : w[j] = u[j]

\* The number a matched group stands for: int() of its text (" 2" is 2).
GroupValue(t) == DigitsValue(SelectSeq(t, LAMBDA c : c \in Digits))

\* The match the regex engine finds first.
FirstMatch(ws) == CHOOSE x \in ws : \A u \in ws \ {x} : TriedBefore(x, u)

\* The date of the matched numbers, or the ValueError of an impossible date.
CheckedDate(y, mo, dd, h, mi) ==
    IF y < 1 \/ dd > DaysInMonth(y, mo) THEN ErrV("ValueError")
    ELSE DateV(y, mo, dd, h, mi)

\* The date of a match with group widths w; text left over is a ValueError
\* ("unconverted data remains").
DateFromWidths(t, w) ==
    IF 4 + w[1] + w[2] + w[3] + w[4] # Len(t) THEN ErrV("ValueError")
    ELSE CheckedDate(DigitsValue(PySlice(t, 0, 4)),
                     GroupValue(PySlice(t, 4, 4 + w[1])),
                     GroupValue(PySlice(t, 4 + w[1], 4 + w[1] + w[2])),
                     GroupValue(PySlice(t, 4 + w[1] + w[2], 4 + w[1] + w[2] + w[3])),
                     GroupValue(PySlice(t, 4 + w[1] + w[2] + w[3],
                                        4 + w[1] + w[2] + w[3] + w[4])))

\* datetime.strptime(value, "%Y%m%d%H%M").replace(tzinfo=timezone.utc), or the
\* ValueError it raises.
parse_datetime(t) ==
    IF ~(Len(t) >= 4 /\ \A i \in 1..4 : t[i] \in Digits) \/ MatchWidths(t) = {}
    THEN ErrV("ValueError")
    ELSE DateFromWidths(t, FirstMatch(MatchWidths(t)))

----------------------------------------------------------------------------
(* parse_line, parser.py:256-319, and the models it validates, parser.py:24-253 *)

\* The fields parse_line cuts out of the line, in the order of the source.
RawFields ==
    { "control.total_variable_characters", "control.usaf_id",
      "control.wban_id", "control.dt", "control.data_source_flag",
      "control.latitude", "control.longitude", "control.report_type_code",
      "control.elevation", "control.call_letter_id",
      "control.qc_process_name", "wind.direction_angle",
      "wind.direction_quality_code", "wind.type_code", "wind.speed_rate",
      "wind.speed_quality_code", "ceiling.ceiling_height",
      "ceiling.ceiling_quality_code", "ceiling.ceiling_determination_code",
      "ceiling.cavok_code", "visibility.distance",
      "visibility.distance_quality_code", "visibility.variability_code",
      "visibility.variability_quality_code", "air_temperature.temperature_c",
      "air_temperature.quality_code", "dew_point.temperature_c",
      "dew_point.quality_code", "sea_level_pressure.pressure",
      "sea_level_pressure.quality_code" }

\* The computed fields of AirTemperatureObservation (parser.py:209-212).
ComputedFields == {"air_temperature.temperature_f", "dew_point.temperature_f"}

RecordFields == RawFields \cup ComputedFields

IndexedFields_sliced == {}

\* The fields parse_line reads as line[i], which raises IndexError on a short
\* line; the others are slices line[a:b], which are cut short instead.
IndexedFields ==
    { "control.data_source_flag", "wind.direction_quality_code",
      "wind.type_code", "wind.speed_quality_code",
      "ceiling.ceiling_quality_code", "ceiling.ceiling_determination_code",
      "ceiling.cavok_code", "visibility.distance_quality_code",
      "visibility.variability_code", "visibility.variability_quality_code",
      "air_temperature.quality_code", "dew_point.quality_code",
      "sea_level_pressure.quality_code" }

\* <<a, b>>: the field is line[a:b] (or line[a] with b = a + 1).
FieldRange_shifted(f) ==
    CASE f = "control.total_variable_characters" -> <<0, 4>>
      [] f = "control.usaf_id" -> <<4, 10>>
      [] f = "control.wban_id" -> <<10, 15>>
      [] f = "control.dt" -> <<15, 27>>
      [] f = "control.data_source_flag" -> <<27, 28>>
      [] f = "control.latitude" -> <<28, 34>>
      [] f = "control.longitude" -> <<34, 41>>
      [] f = "control.report_type_code" -> <<41, 46>>
      [] f = "control.elevation" -> <<46, 51>>
      [] f = "control.call_letter_id" -> <<51, 56>>
      [] f = "control.qc_process_name" -> <<56, 60>>
      [] f = "wind.direction_angle" -> <<60, 63>>
      [] f = "wind.direction_quality_code" -> <<63, 64>>
      [] f = "wind.type_code" -> <<64, 65>>
      [] f = "wind.speed_rate" -> <<65, 69>>
      [] f = "wind.speed_quality_code" -> <<69, 70>>
      [] f = "ceiling.ceiling_height" -> <<70, 75>>
      [] f = "ceiling.ceiling_quality_code" -> <<75, 76>>
      [] f = "ceiling.ceiling_determination_code" -> <<76, 77>>
      [] f = "ceiling.cavok_code" -> <<77, 78>>
      [] f = "visibility.distance" -> <<78, 84>>
      [] f = "visibility.distance_quality_code" -> <<84, 85>>
      [] f = "visibility.variability_code" -> <<85, 86>>
      [] f = "visibility.variability_quality_code" -> <<86, 87>>
      [] f = "air_temperature.temperature_c" -> <<87, 92>>
      [] f = "air_temperature.quality_code" -> <<98, 99>>
      [] f = "dew_point.temperature_c" -> <<93, 98>>
      [] f = "dew_point.quality_code" -> <<98, 99>>
      [] f = "sea_level_pressure.pressure" -> <<99, 104>>
      [] f = "sea_level_pressure.quality_code" -> <<104, 105>>

FieldRange(f) ==
    CASE f = "control.total_variable_characters" -> <<0, 4>>
      [] f = "control.usaf_id" -> <<4, 10>>
      [] f = "control.wban_id" -> <<10, 15>>
      [] f = "control.dt" -> <<15, 27>>
      [] f = "control.data_source_flag" -> <<27, 28>>
      [] f = "control.latitude" -> <<28, 34>>
      [] f = "control.longitude" -> <<34, 41>>
      [] f = "control.report_type_code" -> <<41, 46>>
      [] f = "control.elevation" -> <<46, 51>>
      [] f = "control.call_letter_id" -> <<51, 56>>
      [] f = "control.qc_process_name" -> <<56, 60>>
      [] f = "wind.direction_angle" -> <<60, 63>>
      [] f = "wind.direction_quality_code" -> <<63, 64>>
      [] f = "wind.type_code" -> <<64, 65>>
      [] f = "wind.speed_rate" -> <<65, 69>>
      [] f = "wind.speed_quality_code" -> <<69, 70>>
      [] f = "ceiling.ceiling_height" -> <<70, 75>>
      [] f = "ceiling.ceiling_quality_code" -> <<75, 76>>
      [] f = "ceiling.ceiling_determination_code" -> <<76, 77>>
      [] f = "ceiling.cavok_code" -> <<77, 78>>
      [] f = "visibility.distance" -> <<78, 84>>
      [] f = "visibility.distance_quality_code" -> <<84, 85>>
      [] f = "visibility.variability_code" -> <<85, 86>>
      [] f = "visibility.variability_quality_code" -> <<86, 87>>
      [] f = "air_temperature.temperature_c" -> <<87, 92>>
      [] f = "air_temperature.quality_code" -> <<92, 93>>
      [] f = "dew_point.temperature_c" -> <<93, 98>>
      [] f = "dew_point.quality_code" -> <<98, 99>>
      [] f = "sea_level_pressure.pressure" -> <<99, 104>>
      [] f = "sea_level_pressure.quality_code" -> <<104, 105>>

\* The annotation of each field: its type and its before-validator.
FieldKind(f) ==
    CASE f \in
         { "control.total_variable_characters" } -> "int"
      [] f \in
         { "control.usaf_id" } -> "usaf"
      [] f \in
         { "control.wban_id" } -> "wban"
      [] f \in
         { "control.dt" } -> "datetime"
      [] f \in
         { "control.data_source_flag", "control.report_type_code",
           "control.call_letter_id", "wind.type_code",
           "ceiling.ceiling_determination_code", "ceiling.cavok_code",
           "visibility.variability_code" } -> "optstr"
      [] f \in
         { "control.latitude", "control.longitude", "wind.speed_rate",
           "air_temperature.temperature_c", "dew_point.temperature_c",
           "sea_level_pressure.pressure" } -> "optfloat"
      [] f \in
         { "control.elevation", "wind.direction_angle",
           "ceiling.ceiling_height", "visibility.distance" } -> "optint"
      [] f \in
         { "control.qc_process_name", "wind.direction_quality_code",
           "wind.speed_quality_code", "ceiling.ceiling_quality_code",
           "visibility.distance_quality_code",
           "visibility.variability_quality_code",
           "air_temperature.quality_code", "dew_point.quality_code",
           "sea_level_pressure.quality_code" } -> "str"

\* scaling_factor of the field's missing_if_all_nines (parser.py:49-51, 116, 199, 218).
ScalingFactor(f) ==
    IF f \in {"control.latitude", "control.longitude"} THEN 1000
    ELSE IF FieldKind(f) = "optfloat" THEN 10
    ELSE 1

\* Field(max_length=...) of the str fields; usaf_id and wban_id also have min_length.
MaxLength(f) ==
    CASE f = "control.usaf_id" -> 6
      [] f = "control.wban_id" -> 5
      [] f = "control.data_source_flag" -> 1
      [] f = "control.report_type_code" -> 5
      [] f = "control.call_letter_id" -> 5
      [] f = "control.qc_process_name" -> 4
      [] f = "wind.direction_quality_code" -> 1
      [] f = "wind.type_code" -> 1
      [] f = "wind.speed_quality_code" -> 1
      [] f = "ceiling.ceiling_quality_code" -> 1
      [] f = "ceiling.ceiling_determination_code" -> 1
      [] f = "ceiling.cavok_code" -> 1
      [] f = "visibility.distance_quality_code" -> 1
      [] f = "visibility.variability_code" -> 1
      [] f = "visibility.variability_quality_code" -> 1
      [] f = "air_temperature.quality_code" -> 1
      [] f = "dew_point.quality_code" -> 1
      [] f = "sea_level_pressure.quality_code" -> 1

GroupNames ==
    <<"wind", "ceiling", "visibility", "air_temperature", "dew_point", "sea_level_pressure">>

GroupFields(g) ==
    CASE g = "control" ->
         { "control.total_variable_characters", "control.usaf_id",
           "control.wban_id", "control.dt", "control.data_source_flag",
           "control.latitude", "control.longitude",
           "control.report_type_code", "control.elevation",
           "control.call_letter_id", "control.qc_process_name" }
      [] g = "wind" ->
         { "wind.direction_angle", "wind.direction_quality_code",
           "wind.type_code", "wind.speed_rate", "wind.speed_quality_code" }
      [] g = "ceiling" ->
         { "ceiling.ceiling_height", "ceiling.ceiling_quality_code",
           "ceiling.ceiling_determination_code", "ceiling.cavok_code" }
      [] g = "visibility" ->
         { "visibility.distance", "visibility.distance_quality_code",
           "visibility.variability_code",
           "visibility.variability_quality_code" }
      [] g = "air_temperature" ->
         { "air_temperature.temperature_c", "air_temperature.quality_code" }
      [] g = "dew_point" ->
         { "dew_point.temperature_c", "dew_point.quality_code" }
      [] g = "sea_level_pressure" ->
         { "sea_level_pressure.pressure", "sea_level_pressure.quality_code" }


WordChars == Letters \cup Digits \cup {"_"}

\* The text parse_line hands to the field's validator.
RawField(l, f) == PySlice(l, FieldRange(f)[1], FieldRange(f)[2])

\* line[i] raises IndexError.
RaisesIndexError(l, f) == f \in IndexedFields /\ FieldRange(f)[1] >= Len(l)

\* A str against Field(max_length=...).
CheckedStr(f, t) == IF Len(t) <= MaxLength(f) THEN StrV(t) ELSE ErrV("ValidationError")

ValidUsafId_lengthOnly(raw) == Len(raw) = 6

\* usaf_id: Field(min_length=6, max_length=6, pattern=r"^\w*$"), parser.py:35.
ValidUsafId(raw) == Len(raw) = 6 /\ \A i \in 1..Len(raw) : raw[i] \in WordChars

\* wban_id: Field(min_length=5, max_length=5, pattern=r"^\d*$"), parser.py:39.
ValidWbanId(raw) == Len(raw) = 5 /\ \A i \in 1..Len(raw) : raw[i] \in Digits

ValidatedFloat_coerced(before) == IF IsErr(before) THEN None ELSE before

\* A ValueError raised inside a before-validator becomes a ValidationError.
ValidatedFloat(before) == IF IsErr(before) THEN ErrV("ValidationError") ELSE before

\* A ValueError raised by the datetime validator becomes a ValidationError.
ValidatedDatetime(dt) == IF IsErr(dt) THEN ErrV("ValidationError") ELSE dt

ValidateKind_sentinelOnStr(kind, f, raw, before) ==
    CASE kind = "int" -> IntFromStr(raw)
      [] kind = "usaf" ->
           IF before = None THEN None
           ELSE IF ValidUsafId(raw) THEN StrV(raw) ELSE ErrV("ValidationError")
      [] kind = "wban" ->
           IF before = None THEN None
           ELSE IF ValidWbanId(raw) THEN StrV(raw) ELSE ErrV("ValidationError")
      [] kind = "datetime" -> ValidatedDatetime(parse_datetime(raw))
      [] kind = "str" -> IF before = None THEN None ELSE CheckedStr(f, raw)
      [] kind = "optstr" ->
           IF before = None THEN None ELSE CheckedStr(f, before.s)
      [] kind = "optint" ->
           IF before = None THEN None ELSE IntFromStr(before.s)
      [] kind = "optfloat" -> ValidatedFloat(before)

\* The validated value of a field of the given kind: raw is the text
\* parse_line passes, before what the field's before-validator (if it has one)
\* makes of it.
ValidateKind(kind, f, raw, before) ==
    CASE kind = "int" -> IntFromStr(raw)
      [] kind = "usaf" ->
           IF ValidUsafId(raw) THEN StrV(raw) ELSE ErrV("ValidationError")
      [] kind = "wban" ->
           IF ValidWbanId(raw) THEN StrV(raw) ELSE ErrV("ValidationError")
      [] kind = "datetime" -> ValidatedDatetime(parse_datetime(raw))
      [] kind = "str" -> CheckedStr(f, raw)
      [] kind = "optstr" ->
           IF before = None THEN None ELSE CheckedStr(f, before.s)
      [] kind = "optint" ->
           IF before = None THEN None ELSE IntFromStr(before.s)
      [] kind = "optfloat" -> ValidatedFloat(before)

\* The validated value of a field given its raw text, or the ValidationError.
ValidateField(f, raw) ==
    ValidateKind(FieldKind(f), f, raw, missing_if_all_nines(raw, ScalingFactor(f)))

temperature_f_misgrouped(c) ==
    IF c.k = "float" THEN FloatV((c.n + 32 * c.d) * 18, 10 * c.d)
    ELSE c

\* AirTemperatureObservation.temperature_f (parser.py:209-212).
temperature_f(c) ==
    IF c.k = "float" THEN FloatV(c.n * 18 + 320 * c.d, 10 * c.d)
    ELSE c

\* The field a record field is validated or computed from.
SourceField(f) ==
    CASE f = "air_temperature.temperature_f" -> "air_temperature.temperature_c"
      [] f = "dew_point.temperature_f" -> "dew_point.temperature_c"
      [] OTHER -> f

\* A field of the record given the validated value of its source field.
RecordValue(f, v) == IF f \in ComputedFields THEN temperature_f(v) ELSE v

FieldValue(l, f) ==
    RecordValue(f, ValidateField(SourceField(f), RawField(l, SourceField(f))))

\* What building and validating one model raises: "" when nothing.
GroupError(l, g) ==
    IF \E f \in GroupFields(g) : RaisesIndexError(l, f) THEN "IndexError"
    ELSE IF \E f \in GroupFields(g) : IsErr(ValidateField(f, RawField(l, f)))
         THEN "ValidationError"
    ELSE ""

\* The order in which parse_line validates: each observation as it is built
\* (parser.py:270-313), ControlData last (parser.py:317).
ValidationOrder == GroupNames \o <<"control">>

RECURSIVE FirstGroupError(_, _)
FirstGroupError(l, i) ==
    IF i > Len(ValidationOrder) THEN ""
    ELSE IF GroupError(l, ValidationOrder[i]) # ""
         THEN GroupError(l, ValidationOrder[i])
    ELSE FirstGroupError(l, i + 1)

\* The first error parse_line raises, in the order of its statements: the
\* control_datum dict is built (line[27]), then the models are validated.
ParseError(l) ==
    IF \E f \in GroupFields("control") : RaisesIndexError(l, f) THEN "IndexError"
    ELSE FirstGroupError(l, 1)

NoRecord == [f \in RecordFields |-> NotCalled]

\* The outcome of parse_line given the error it raises ("" when none).
Outcome(l, e) ==
    IF e # ""
    THEN [ok |-> FALSE, err |-> e, f |-> NoRecord]
    ELSE [ok |-> TRUE, err |-> "", f |-> [f \in RecordFields |-> FieldValue(l, f)]]

\* parse_line(line): the ISDRecord, or the error raised.
parse_line(l) == Outcome(l, ParseError(l))

NotParsed == [ok |-> FALSE, err |-> "notcalled", f |-> NoRecord]

----------------------------------------------------------------------------
(* The rollup engine, stations.py:51-388.  A series is a sequence of samples  *)
(* [t, v]: t is the timestamp in minutes since the midnight before the first  *)
(* sample, v a float or None (NaN).  A period is a fixed number of minutes.   *)

MinutesPerDay == 1440

Sample(t, v) == [t |-> t, v |-> v]

\* a + b for floats, over the least common denominator.
FloatAdd(a, b) ==
    LET g == GCD(a.d, b.d)
    IN FloatV(a.n * (b.d \div g) + b.n * (a.d \div g), (a.d \div g) * b.d)

\* a + (b - a) * i / k for floats a, b.
FloatLerp(a, b, i, k) ==
    FloatAdd(a, FloatV((b.n * a.d - a.n * b.d) * i, a.d * b.d * k))

Present(data) == {i \in 1..Len(data) : data[i].v # None}

\* The sum of the values of data[lo..hi] that are not NaN.
RECURSIVE SumValues(_, _, _)
SumValues(data, lo, hi) ==
    IF lo > hi THEN FloatV(0, 1)
    ELSE IF lo = hi THEN (IF data[lo].v = None THEN FloatV(0, 1) ELSE data[lo].v)
    ELSE LET mid == (lo + hi) \div 2
         IN FloatAdd(SumValues(data, lo, mid), SumValues(data, mid + 1, hi))

\* .mean() of a group: NaN is skipped; a group with no value gives NaN.
GroupMean(group) ==
    LET cnt == Cardinality(Present(group))
        total == SumValues(group, 1, Len(group))
    IN IF cnt = 0 THEN None ELSE FloatV(total.n, total.d * cnt)

\* .first() of a group: the first value that is not NaN.
GroupFirst(group) ==
    IF Present(group) = {} THEN None
    ELSE group[CHOOSE i \in Present(group) : \A j \in Present(group) : i <= j].v

Aggregate(group, how) == IF how = "first" THEN GroupFirst(group) ELSE GroupMean(group)

MinTime(data) == CHOOSE x \in {data[i].t : i \in 1..Len(data)} :
                    \A i \in 1..Len(data) : x <= data[i].t

MaxTime(data) == CHOOSE x \in {data[i].t : i \in 1..Len(data)} :
                    \A i \in 1..Len(data) : x >= data[i].t

\* pandas' bin edges for a fixed frequency (origin "start_day"): the first and
\* the last edge, for the first and last timestamp.
FirstEdge(first, p, closed) ==
    LET foffset == (first - (first \div MinutesPerDay) * MinutesPerDay) % p
    IN IF foffset > 0 THEN first - foffset
       ELSE IF closed = "right" THEN first - p ELSE first

LastEdge(first, last, p, closed) ==
    LET loffset == (last - (first \div MinutesPerDay) * MinutesPerDay) % p
    IN IF loffset > 0 THEN last + (p - loffset)
       ELSE IF closed = "right" THEN last ELSE last + p

\* pandas' generate_bins_dt64: the end of a bin is the position its pointer j
\* stops at, the first sample that is neither before the bin's right edge nor
\* (when the bins are right-closed) on it; the pointer never moves back, so
\* this is the length of the longest prefix of such samples.
BinEnd(data, rightEdge, closed) ==
    LET beyond == {j \in 1..Len(data) :
                      ~(data[j].t < rightEdge
                          \/ (closed = "right" /\ data[j].t = rightEdge))}
    IN IF beyond = {} THEN Len(data)
       ELSE (CHOOSE j \in beyond : \A k \in beyond : j <= k) - 1

IsMonotonic(data) == \A i \in 1..(Len(data) - 1) : data[i].t <= data[i + 1].t

\* The place of data[i] in the stable (merge) sort of data by timestamp.
SortedPlace(data, i) ==
    1 + Cardinality({j \in 1..Len(data) :
                        data[j].t < data[i].t \/ (data[j].t = data[i].t /\ j < i)})

\* resample() sorts by the index, stably, unless it is monotonic already.
SortByTime(data) ==
    IF IsMonotonic(data) THEN data
    ELSE [k \in 1..Len(data) |->
            data[CHOOSE i \in 1..Len(data) : SortedPlace(data, i) = k]]

\* The rows of the bins from edge e0 to edge e1, for data sorted by timestamp.
ResampleBins(data, p, label, closed, how, e0, e1) ==
    [i \in 1..((e1 - e0) \div p) |->
        Sample(IF label = "right" THEN e0 + i * p ELSE e0 + (i - 1) * p,
               Aggregate(SubSeq(data,
                                (IF i = 1 THEN 0
                                 ELSE BinEnd(data, e0 + (i - 1) * p, closed)) + 1,
                                BinEnd(data, e0 + i * p, closed)),
                         how))]

ResampleSorted(data, p, label, closed, how) ==
    ResampleBins(data, p, label, closed, how,
                 FirstEdge(data[1].t, p, closed),
                 LastEdge(data[1].t, data[Len(data)].t, p, closed))

\* data.resample(period, label=label, closed=closed).mean() or .first().
Resample(data, p, label, closed, how) ==
    IF data = <<>> THEN <<>>
    ELSE ResampleSorted(SortByTime(data), p, label, closed, how)

\* limit=60 of upsample's interpolate().
InterpolateLimit == 60

\* The last of a set of positions before a row, the first of those after it
\* (0 when there is none).
LastOf(rows) == IF rows = {} THEN 0 ELSE CHOOSE x \in rows : \A y \in rows : y <= x
FirstOf(rows) == IF rows = {} THEN 0 ELSE CHOOSE x \in rows : \A y \in rows : x <= y

\* The value row i is filled with: a is the last row with a value before it,
\* b the first after it (0: none).
FillValue_forwardOnly(data, limit, i, a, b) ==
    IF ~(a # 0 /\ i - a <= limit) THEN None
    ELSE IF b = 0 THEN data[a].v
    ELSE FloatLerp(data[a].v, data[b].v, i - a, b - a)

FillValue(data, limit, i, a, b) ==
    IF ~((a # 0 /\ i - a <= limit) \/ (b # 0 /\ b - i <= limit)) THEN None
    ELSE IF a = 0 THEN data[b].v
    ELSE IF b = 0 THEN data[a].v
    ELSE FloatLerp(data[a].v, data[b].v, i - a, b - a)

InterpolateRows(data, limit, valid) ==
    [i \in 1..Len(data) |->
        IF i \in valid THEN data[i]
        ELSE Sample(data[i].t,
                    FillValue(data, limit, i, LastOf({x \in valid : x < i}),
                              FirstOf({x \in valid : x > i})))]

\* .interpolate(method="linear", limit=limit, limit_direction="both"): a NaN
\* with a value at most limit rows before or after it is filled, linearly
\* between its neighbouring values, or with the nearest value at either end.
Interpolate(data, limit) ==
    IF Present(data) = {} THEN data ELSE InterpolateRows(data, limit, Present(data))

upsample_unfilled(data, p) == Resample(data, p, "left", "left", "mean")

\* upsample(data, period), stations.py:104; the period "min" is 1.
upsample(data, p) ==
    Interpolate(Resample(data, p, "left", "left", "mean"), InterpolateLimit)

\* if upsample_first: data = upsample(data, period="min")
Upsampled(data, upsampleFirst) == IF upsampleFirst THEN upsample(data, 1) ELSE data

rollup_starting_rightClosed(data, p, upsampleFirst) ==
    Resample(Upsampled(data, upsampleFirst), p, "left", "right", "mean")

\* rollup_starting(data, period, upsample_first=...), stations.py:172-174.
rollup_starting(data, p, upsampleFirst) ==
    Resample(Upsampled(data, upsampleFirst), p, "left", "left", "mean")

rollup_ending_leftClosed(data, p, upsampleFirst) ==
    Resample(Upsampled(data, upsampleFirst), p, "right", "left", "mean")

\* rollup_ending(data, period, upsample_first=...), stations.py:242-244.
rollup_ending(data, p, upsampleFirst) ==
    Resample(Upsampled(data, upsampleFirst), p, "right", "right", "mean")

\* The result slot of a rollup: not called yet, the rows it returned, or the
\* exception it raised.
NotRolled == [done |-> FALSE, rows |-> <<>>, err |-> ""]
Rolled(rows) == [done |-> TRUE, rows |-> rows, err |-> ""]
RolledError(e) == [done |-> TRUE, rows |-> <<>>, err |-> e]

\* A period is a number of minutes (a pandas Tick offset) or the calendar
\* offset "MS" (month start), which has no fixed length.
MonthStart == -1
IsTick(p) == p # MonthStart

\* to_offset(period) / 2 for a Tick offset (the numbers of minutes used here
\* are even); no other offset defines division.
HalfPeriod(p) == p \div 2

Shift_none(data, d) == data

\* data.shift(freq=d): every timestamp moved forward by d, values unchanged.
Shift(data, d) == [i \in 1..Len(data) |-> Sample(data[i].t + d, data[i].v)]

\* A month taken as 30 days.
rollup_midpoint_monthAs30Days(data, p, upsampleFirst) ==
    IF IsTick(p)
    THEN Rolled(Resample(Shift(Upsampled(data, upsampleFirst), HalfPeriod(p)),
                         p, "left", "left", "mean"))
    ELSE Rolled(Resample(Shift(Upsampled(data, upsampleFirst), 15 * MinutesPerDay),
                         30 * MinutesPerDay, "left", "left", "mean"))

\* rollup_midpoint(data, period, upsample_first=...), stations.py:313-316: the
\* rows returned, or the TypeError of to_offset(period) / 2 for an offset that
\* is not a Tick.
rollup_midpoint(data, p, upsampleFirst) ==
    IF ~IsTick(p) THEN RolledError("TypeError")
    ELSE Rolled(Resample(Shift(Upsampled(data, upsampleFirst), HalfPeriod(p)),
                         p, "left", "left", "mean"))

\* rollup_instant(data, period, upsample_first=...), stations.py:386-388.
rollup_instant(data, p, upsampleFirst) ==
    Resample(Upsampled(data, upsampleFirst), p, "left", "left", "first")

----------------------------------------------------------------------------
(* The field decoder applied to bounded tokens *)

MaxTokLen == 4

TokenAlphabet == {"9", "2", "+", "-", " ", "."}

ScalingFactors == {1, 10, 1000}

\* Tokens of the ISD layout and of the decoder's edge cases, wider than MaxTokLen.
SampleTokens ==
    { <<"+", "9", "9", "9", "9">>, <<"-", "0", "0", "2", "8">>,
      <<"9", "9", "9", "9", "9", "9">>, <<"+", "9", "9", "9", "9", "9", "9">>,
      <<"+", "0", "2", "7", "0">>, <<"-", "1", "0", "5", "0", "5", "0">>,
      <<"+", "4", "0", "0", "1", "7">>, <<"0", "0", "4", "6">>,
      <<" ", "+", "9", "9", "9", " ">>, <<"\t", "9", "9", "\n">>,
      <<"9", "9", "\n", "9">>, <<"1", "_", "0">>, <<"_", "1", "0">>,
      <<"N", "A", "N">>, <<"-", "I", "N", "F">>, <<"F", "M", "-", "1", "5">>,
      <<"K", "B", "J", "C", " ">>, <<"9", "9", "A">>, <<"0", "9", "9", "9", "9">> }

Tokens == UNION {[1..k -> TokenAlphabet] : k \in 0..MaxTokLen} \cup SampleTokens

ParserIdle ==
    /\ line = <<>>
    /\ rec = NotParsed

RollupIdle ==
    /\ series = <<>>
    /\ period = 0
    /\ upsample_first = FALSE
    /\ rollup = ""
    /\ rolled = NotRolled

\* fetch_data before any call: no arguments, no server, nothing read.
NoCall ==
    [method |-> "", inventory |-> <<>>, year |-> <<>>, datum |-> "", period |-> 0,
     rollup |-> "", upsample_first |-> FALSE, include_control |-> FALSE,
     include_quality_codes |-> FALSE, temp_scale |-> "", tz |-> ""]
NoServer == [up |-> FALSE, files |-> <<>>]
NotFetching ==
    [pc |-> "idle", filenames |-> <<>>, warnings |-> <<>>, ignored |-> <<>>,
     suppress |-> FALSE, conn |-> "none", fi |-> 0, li |-> 0, data |-> <<>>,
     table |-> <<>>]
NoFile == [usaf_id |-> "", wban_id |-> "", year |-> 0]
NoResult ==
    [kind |-> "none", rows |-> <<>>, columns |-> {}, tz |-> "", err |-> "",
     filename |-> NoFile, lineno |-> 0]

FetchIdle ==
    /\ call = NoCall
    /\ server = NoServer
    /\ fetch = NotFetching
    /\ result = NoResult

\* NOAAFTPConnection(): self.ftp = None (connection.py:51-53); no method has
\* been called and no with statement entered.
NoReply ==
    [op |-> "", outcome |-> "", err |-> "", cause |-> "", filename |-> <<>>,
     sent |-> <<>>, content |-> [ok |-> TRUE, bytes |-> <<>>]]

ConnIdle ==
    /\ ftp = "None"
    /\ with_block = "before"
    /\ reply = NoReply

InitCodec ==
    /\ v_in \in Tokens
    /\ sf_in \in ScalingFactors
    /\ decoded = NotCalled
    /\ ParserIdle
    /\ RollupIdle
    /\ FetchIdle
    /\ ConnIdle

\* One call missing_if_all_nines(v_in, scaling_factor=sf_in).
Decode ==
    /\ decoded = NotCalled
    /\ decoded' = missing_if_all_nines(v_in, sf_in)
    /\ UNCHANGED <<v_in, sf_in, parserVars, rollupVars, fetchVars, connVars>>

NextCodec == Decode

SpecCodec == InitCodec /\ [][NextCodec]_vars

----------------------------------------------------------------------------
(* Claims about the field decoder *)

\* The trimmed token of the call, stated with the claim's own trimming.
Trimmed(s) ==
    LET first == {i \in 1..Len(s) : s[i] \notin Whitespace}
    IN IF first = {} THEN <<>>
       ELSE SubSeq(s, CHOOSE i \in first : \A j \in first : i <= j,
                      CHOOSE i \in first : \A j \in first : i >= j)

\* ^[+-]?9+$ : one or more 9s with an optional leading sign.
IsNinesToken(s) ==
    \E k \in 0..1 :
        /\ Len(s) > k
        /\ k = 1 => s[1] \in {"+", "-"}
        /\ \A i \in (k + 1)..Len(s) : s[i] = "9"

\* [+-]?digits, and its value.
IsPlainNumber(s) ==
    \E k \in 0..1 :
        /\ Len(s) > k
        /\ k = 1 => s[1] \in {"+", "-"}
        /\ \A i \in (k + 1)..Len(s) : s[i] \in Digits

RECURSIVE PlainMagnitude(_)
PlainMagnitude(s) ==
    IF s = <<>> THEN 0
    ELSE IF s[Len(s)] \in Digits
         THEN 10 * PlainMagnitude(SubSeq(s, 1, Len(s) - 1)) + DigitVal(s[Len(s)])
         ELSE 0

PlainValue(s) == IF s[1] = "-" THEN -PlainMagnitude(s) ELSE PlainMagnitude(s)

\* C1: every token that is, once trimmed, one or more 9s with an optional
\* leading sign decodes to None, whatever its width and scaling factor; the
\* sentinel wins over scaling and number parsing.
C1_SentinelDecodesToNone ==
    (decoded # NotCalled /\ IsNinesToken(Trimmed(v_in))) => decoded = None

\* C1 witness: "+9999" with scaling factor 10 has been decoded, to None.
C1_Witness ==
    /\ v_in = <<"+", "9", "9", "9", "9">>
    /\ sf_in = 10
    /\ decoded = None

\* C8: a trimmed token that is not a sentinel decodes, with a scaling factor
\* other than 1, to its numeric value divided by the factor, and with scaling
\* factor 1 to the trimmed text itself.
C8_ScaledOrVerbatim ==
    (decoded # NotCalled /\ ~IsNinesToken(Trimmed(v_in))) =>
        /\ sf_in = 1 => decoded = StrV(Trimmed(v_in))
        /\ (sf_in # 1 /\ IsPlainNumber(Trimmed(v_in))) =>
              /\ decoded.k = "float"
              /\ decoded.n * sf_in = PlainValue(Trimmed(v_in)) * decoded.d
        /\ (sf_in # 1 /\ ~IsErr(ParseFloat(Trimmed(v_in)))) => ~IsErr(decoded)

\* C8 witness: "-0028" with scaling factor 10 has been decoded to -2.8, and
\* some token has been returned verbatim.
C8_Witness ==
    /\ v_in = <<"-", "0", "0", "2", "8">>
    /\ sf_in = 10
    /\ decoded.k = "float" /\ decoded.n = -14 /\ decoded.d = 5

----------------------------------------------------------------------------
(* parse_line applied to bounded lines *)

\* An ISD record of station 720534-00161: its 105-character fixed portion.
BaseLine ==
    <<"0","1","3","0">> \o
    <<"7","2","0","5","3","4">> \o
    <<"0","0","1","6","1">> \o
    <<"2","0","1","8","0","9","2","2","0","1","1","5">> \o
    <<"4">> \o
    <<"+","4","0","0","1","7">> \o
    <<"-","1","0","5","0","5","0">> \o
    <<"F","M","-","1","5">> \o
    <<"+","1","5","6","4">> \o
    <<"K","B","J","C"," ">> \o
    <<"V","0","2","0">> \o
    <<"3","0","0">> \o
    <<"5">> \o
    <<"N">> \o
    <<"0","0","4","6">> \o
    <<"5">> \o
    <<"2","2","0","0","0">> \o
    <<"5">> \o
    <<"9">> \o
    <<"N">> \o
    <<"0","1","6","0","9","3">> \o
    <<"5">> \o
    <<"N">> \o
    <<"5">> \o
    <<"+","0","2","7","0">> \o
    <<"5">> \o
    <<"+","0","1","6","0">> \o
    <<"5">> \o
    <<"9","9","9","9","9">> \o
    <<"9">>

\* Replacements of a stretch of the line: tok is written at 0-indexed offset at.
InputEdits ==
    {
      [at |-> 0, tok |-> <<" "," "," "," ">>],
      [at |-> 0, tok |-> <<"9","9","9","9">>],
      [at |-> 0, tok |-> <<"0","0","0","0">>],
      [at |-> 0, tok |-> <<"+","0","1","3">>],
      [at |-> 0, tok |-> <<"0","1","A","0">>],
      [at |-> 4, tok |-> <<"7","2","0","5","3"," ">>],
      [at |-> 4, tok |-> <<"A","0","_","5","3","4">>],
      [at |-> 4, tok |-> <<"7","2","0","5","-","4">>],
      [at |-> 4, tok |-> <<"9","9","9","9","9","9">>],
      [at |-> 4, tok |-> <<"7","2"," ","5","3","4">>],
      [at |-> 4, tok |-> <<"_","_","_","_","_","9">>],
      [at |-> 10, tok |-> <<"0","0","1","6","A">>],
      [at |-> 10, tok |-> <<"0"," ","1","6","1">>],
      [at |-> 10, tok |-> <<"9","9","9","9","9">>],
      [at |-> 10, tok |-> <<"+","0","1","6","1">>],
      [at |-> 10, tok |-> <<"0","0","_","6","1">>],
      [at |-> 10, tok |-> <<"1","4","8","3","0">>],
      [at |-> 15, tok |-> <<"2","0","1","8","0","9","3","1","0","1","1","5">>],
      [at |-> 15, tok |-> <<"2","0","1","8","0","9"," ","2","0","1","1","5">>],
      [at |-> 15, tok |-> <<"2","0","2","0","0","2","2","9","0","0","0","0">>],
      [at |-> 15, tok |-> <<"2","0","1","8","0","2","2","9","0","0","0","0">>],
      [at |-> 15, tok |-> <<"9","9","9","9","9","9","9","9","9","9","9","9">>],
      [at |-> 15, tok |-> <<"2","0","1","8","0","9","2","2","0","1"," ","5">>],
      [at |-> 15, tok |-> <<"2","0","1","8","0","9","2","2","2","4","1","5">>],
      [at |-> 27, tok |-> <<"9">>],
      [at |-> 27, tok |-> <<" ">>],
      [at |-> 27, tok |-> <<"7">>],
      [at |-> 28, tok |-> <<"+","9","9","9","9","9">>],
      [at |-> 28, tok |-> <<" "," "," "," "," "," ">>],
      [at |-> 28, tok |-> <<"+","4","A","0","1","7">>],
      [at |-> 28, tok |-> <<"-","4","0","0","1","7">>],
      [at |-> 28, tok |-> <<"9","9","9","9","9","9">>],
      [at |-> 28, tok |-> <<"+","4","0","_","1","7">>],
      [at |-> 34, tok |-> <<"+","9","9","9","9","9","9">>],
      [at |-> 34, tok |-> <<"-","1","0","5","0","5","A">>],
      [at |-> 34, tok |-> <<"+","1","0","5","0","5","0">>],
      [at |-> 34, tok |-> <<" "," "," "," "," "," "," ">>],
      [at |-> 41, tok |-> <<"9","9","9","9","9">>],
      [at |-> 41, tok |-> <<"F","M","-","1","2">>],
      [at |-> 41, tok |-> <<" "," "," "," "," ">>],
      [at |-> 46, tok |-> <<"+","9","9","9","9">>],
      [at |-> 46, tok |-> <<"-","0","0","1","2">>],
      [at |-> 46, tok |-> <<" "," "," "," "," ">>],
      [at |-> 46, tok |-> <<"9","9","9","9","9">>],
      [at |-> 46, tok |-> <<"+","1","5","A","4">>],
      [at |-> 51, tok |-> <<"9","9","9","9","9">>],
      [at |-> 51, tok |-> <<"K","D","E","N"," ">>],
      [at |-> 56, tok |-> <<"9","9","9","9">>],
      [at |-> 56, tok |-> <<"V","0","3","0">>],
      [at |-> 56, tok |-> <<" "," "," "," ">>],
      [at |-> 60, tok |-> <<"9","9","9">>],
      [at |-> 60, tok |-> <<"1","8","0">>],
      [at |-> 60, tok |-> <<" "," "," ">>],
      [at |-> 60, tok |-> <<"1","A","0">>],
      [at |-> 63, tok |-> <<"9">>],
      [at |-> 63, tok |-> <<"1">>],
      [at |-> 63, tok |-> <<" ">>],
      [at |-> 64, tok |-> <<"9">>],
      [at |-> 64, tok |-> <<"C">>],
      [at |-> 65, tok |-> <<"9","9","9","9">>],
      [at |-> 65, tok |-> <<"0","0","0","0">>],
      [at |-> 65, tok |-> <<"0","0","A","6">>],
      [at |-> 65, tok |-> <<" "," "," "," ">>],
      [at |-> 65, tok |-> <<"0","0","1","5">>],
      [at |-> 69, tok |-> <<"9">>],
      [at |-> 69, tok |-> <<"1">>],
      [at |-> 70, tok |-> <<"9","9","9","9","9">>],
      [at |-> 70, tok |-> <<"0","0","3","0","5">>],
      [at |-> 70, tok |-> <<" "," "," "," "," ">>],
      [at |-> 75, tok |-> <<"9">>],
      [at |-> 75, tok |-> <<"1">>],
      [at |-> 76, tok |-> <<"M">>],
      [at |-> 76, tok |-> <<"N">>],
      [at |-> 77, tok |-> <<"9">>],
      [at |-> 77, tok |-> <<"Y">>],
      [at |-> 78, tok |-> <<"9","9","9","9","9","9">>],
      [at |-> 78, tok |-> <<"0","0","0","4","0","2">>],
      [at |-> 78, tok |-> <<" "," "," "," "," "," ">>],
      [at |-> 84, tok |-> <<"9">>],
      [at |-> 84, tok |-> <<"1">>],
      [at |-> 85, tok |-> <<"9">>],
      [at |-> 85, tok |-> <<"V">>],
      [at |-> 86, tok |-> <<"9">>],
      [at |-> 86, tok |-> <<"1">>],
      [at |-> 87, tok |-> <<"+","9","9","9","9">>],
      [at |-> 87, tok |-> <<"-","0","0","2","8">>],
      [at |-> 87, tok |-> <<" "," "," "," "," ">>],
      [at |-> 87, tok |-> <<"+","0","2","A","0">>],
      [at |-> 87, tok |-> <<"9","9","9","9","9">>],
      [at |-> 87, tok |-> <<"-","9","9","9","9">>],
      [at |-> 87, tok |-> <<"+","0","0","0","0">>],
      [at |-> 87, tok |-> <<"+","0","2",".","5">>],
      [at |-> 87, tok |-> <<" "," ","+","9","9">>],
      [at |-> 87, tok |-> <<" ","2","7","0"," ">>],
      [at |-> 87, tok |-> <<"+","0","9","9","9">>],
      [at |-> 92, tok |-> <<"9">>],
      [at |-> 92, tok |-> <<"1">>],
      [at |-> 92, tok |-> <<"A">>],
      [at |-> 93, tok |-> <<"+","9","9","9","9">>],
      [at |-> 93, tok |-> <<"-","0","0","2","8">>],
      [at |-> 93, tok |-> <<" "," "," "," "," ">>],
      [at |-> 93, tok |-> <<"-","0","1","A","0">>],
      [at |-> 93, tok |-> <<"+","0","2","7","0">>],
      [at |-> 98, tok |-> <<"9">>],
      [at |-> 98, tok |-> <<"1">>],
      [at |-> 99, tok |-> <<"1","0","1","3","2">>],
      [at |-> 99, tok |-> <<"+","9","9","9","9">>],
      [at |-> 99, tok |-> <<" "," "," "," "," ">>],
      [at |-> 99, tok |-> <<"1","0","1","3","A">>],
      [at |-> 99, tok |-> <<"0","9","9","9","9">>],
      [at |-> 104, tok |-> <<"5">>],
      [at |-> 104, tok |-> <<"1">>],
      [at |-> 104, tok |-> <<" ">>],
      [at |-> 27, tok |-> <<"9","+","9","9","9","9","9">>],
      [at |-> 91, tok |-> <<"9","9">>],
      [at |-> 103, tok |-> <<"1","5">>]
    }

Replace(l, at, tok) == PySlice(l, 0, at) \o tok \o PySlice(l, at + Len(tok), Len(l))

MaxTailLen == 2

TailAlphabet == {"A", "9"}

\* The additional-data section that may follow the fixed portion.
Tails == UNION {[1..k -> TailAlphabet] : k \in 1..MaxTailLen}

EditedLines == {Replace(BaseLine, e.at, e.tok) : e \in InputEdits}

ShortLines == {PySlice(BaseLine, 0, n) : n \in 0..(Len(BaseLine) - 1)}

LongLines == {BaseLine \o t : t \in Tails}

LongEditedLines == {Replace(BaseLine, 93, <<"-", "0", "0", "2", "8">>) \o t : t \in Tails}

\* Lines that are both edited and cut short, or edited twice.
MixedLines ==
    {PySlice(l, 0, n) : l \in EditedLines, n \in {28, 64, 104}}
        \cup {Replace(Replace(BaseLine, 87, <<"-", "0", "0", "2", "8">>), 93, t) :
                t \in {<<"+", "9", "9", "9", "9">>, <<" ", " ", " ", " ", " ">>}}

InputLines == {BaseLine} \cup EditedLines \cup ShortLines \cup LongLines \cup LongEditedLines

CodecIdle ==
    /\ v_in = <<>>
    /\ sf_in = 1
    /\ decoded = NotCalled

\* Successive calls of parse_line, each on any input line.
InitReparse ==
    /\ ParserIdle
    /\ CodecIdle
    /\ RollupIdle
    /\ FetchIdle
    /\ ConnIdle

\* parse_line on every input line, evaluated once.
ParsedInputLines == [l \in InputLines |-> parse_line(l)]

ParseLine ==
    /\ \E l \in InputLines :
          /\ line' = l
          /\ rec' = ParsedInputLines[l]
    /\ UNCHANGED <<codecVars, rollupVars, fetchVars, connVars>>

NextReparse == ParseLine

SpecReparse == InitReparse /\ [][NextReparse]_vars

\* The datetime tokens tried: every combination of these parts.
DtYears == { <<"2","0","1","8">>, <<"2","0","2","0">>, <<"1","9","0","0">>, <<"0","0","0","0">> }
DtMonths == { <<"0","2">>, <<"0","9">>, <<"1","2">>, <<"1","3">>, <<"0","0">>, <<" ","9">> }
DtDays ==
    { <<"0","1">>, <<"2","9">>, <<"3","0">>, <<"3","1">>, <<"3","2">>, <<"0","0">>, <<" ","2">>, <<"2"," ">> }
DtHours == { <<"0","0">>, <<"0","1">>, <<"2","3">>, <<"2","4">>, <<" ","1">> }
DtMinutes == { <<"1","5">>, <<"5","9">>, <<"6","0">>, <<" ","5">> }

DtTokens ==
    {y \o mo \o dd \o h \o mi :
        y \in DtYears, mo \in DtMonths, dd \in DtDays, h \in DtHours, mi \in DtMinutes}

DtLines == {Replace(BaseLine, 15, t) : t \in DtTokens}

ParseInputs == InputLines \cup MixedLines \cup DtLines

\* One call of parse_line on a line drawn from the inputs.
InitParse ==
    /\ line \in ParseInputs
    /\ rec = NotParsed
    /\ CodecIdle
    /\ RollupIdle
    /\ FetchIdle
    /\ ConnIdle

ParseGivenLine ==
    /\ rec = NotParsed
    /\ rec' = parse_line(line)
    /\ UNCHANGED <<line, codecVars, rollupVars, fetchVars, connVars>>

NextParse == ParseGivenLine

SpecParse == InitParse /\ [][NextParse]_vars

----------------------------------------------------------------------------
(* The rollups applied to bounded series *)

MaxSamples == 3

\* Timestamps (minutes after midnight) and values of the samples tried.
SampleTimes == {1, 33, 60, 65, 200}
SampleValues == {FloatV(1, 1), FloatV(2, 1), FloatV(10, 1), None}
Periods == {30, 60}

\* Series of 1..MaxSamples samples in timestamp order (timestamps may repeat).
SeriesInputs ==
    UNION {{s \in [1..k -> [t : SampleTimes, v : SampleValues]] :
               \A i \in 1..(k - 1) : s[i].t <= s[i + 1].t} : k \in 1..MaxSamples}

InitRollup ==
    /\ series \in SeriesInputs
    /\ period \in Periods
    /\ upsample_first \in BOOLEAN
    /\ rollup = ""
    /\ rolled = NotRolled
    /\ ParserIdle
    /\ CodecIdle
    /\ FetchIdle
    /\ ConnIdle

\* One call rollup_starting(series, period, upsample_first=upsample_first).
RollupStarting ==
    /\ ~rolled.done
    /\ rollup' = "starting"
    /\ rolled' = Rolled(rollup_starting(series, period, upsample_first))
    /\ UNCHANGED <<series, period, upsample_first, line, rec, v_in, sf_in, decoded, fetchVars, connVars>>

\* One call rollup_ending(series, period, upsample_first=upsample_first).
RollupEnding ==
    /\ ~rolled.done
    /\ rollup' = "ending"
    /\ rolled' = Rolled(rollup_ending(series, period, upsample_first))
    /\ UNCHANGED <<series, period, upsample_first, parserVars, codecVars, fetchVars, connVars>>

NextRollup == RollupStarting \/ RollupEnding

SpecRollup == InitRollup /\ [][NextRollup]_vars

\* rollup_midpoint, also with a period that is not a fixed duration.
MidpointPeriods == Periods \cup {MonthStart}

InitMidpoint ==
    /\ series \in SeriesInputs
    /\ period \in MidpointPeriods
    /\ upsample_first \in BOOLEAN
    /\ rollup = ""
    /\ rolled = NotRolled
    /\ ParserIdle
    /\ CodecIdle
    /\ FetchIdle
    /\ ConnIdle

\* One call rollup_midpoint(series, period, upsample_first=upsample_first).
RollupMidpoint ==
    /\ ~rolled.done
    /\ rollup' = "midpoint"
    /\ rolled' = rollup_midpoint(series, period, upsample_first)
    /\ UNCHANGED <<series, period, upsample_first, parserVars, codecVars, fetchVars, connVars>>

NextMidpoint == RollupMidpoint

SpecMidpoint == InitMidpoint /\ [][NextMidpoint]_vars

\* One call rollup_instant(series, period, upsample_first=upsample_first).
RollupInstant ==
    /\ ~rolled.done
    /\ rollup' = "instant"
    /\ rolled' = Rolled(rollup_instant(series, period, upsample_first))
    /\ UNCHANGED <<series, period, upsample_first, parserVars, codecVars, fetchVars, connVars>>

NextInstant == RollupInstant

SpecInstant == InitRollup /\ [][NextInstant]_vars

\* upsample(series) with its default period "min" (1 minute).
InitUpsample ==
    /\ series \in SeriesInputs
    /\ period = 1
    /\ upsample_first = FALSE
    /\ rollup = ""
    /\ rolled = NotRolled
    /\ ParserIdle
    /\ CodecIdle
    /\ FetchIdle
    /\ ConnIdle

\* One call upsample(series, period).
Upsample ==
    /\ ~rolled.done
    /\ rollup' = "upsample"
    /\ rolled' = Rolled(upsample(series, period))
    /\ UNCHANGED <<series, period, upsample_first, parserVars, codecVars, fetchVars, connVars>>

NextUpsample == Upsample

SpecUpsample == InitUpsample /\ [][NextUpsample]_vars

----------------------------------------------------------------------------
(* Station.fetch_data and Station.fetch_raw_data, stations.py:567-715, for a  *)
(* station with one file per year, read over FTP.  The table is followed      *)
(* through one of its aggregable columns.                                      *)

\* pd.DatetimeIndex([d.control.dt for d in data]): a timestamp as the minutes
\* since 1970-01-01 00:00 UTC.
UnixEpochYear == 1970

LeapDaysBefore(y) == (y - 1) \div 4 - (y - 1) \div 100 + (y - 1) \div 400

DaysBeforeYear(y) ==
    365 * (y - UnixEpochYear) + LeapDaysBefore(y) - LeapDaysBefore(UnixEpochYear)

RECURSIVE DaysBeforeMonth(_, _)
DaysBeforeMonth(y, mo) ==
    IF mo = 1 THEN 0 ELSE DaysBeforeMonth(y, mo - 1) + DaysInMonth(y, mo - 1)

Timestamp(dt) ==
    (DaysBeforeYear(dt.s[1]) + DaysBeforeMonth(dt.s[1], dt.s[2]) + dt.s[3] - 1)
        * MinutesPerDay + dt.s[4] * 60 + dt.s[5]

\* datum=None and period=None.
NoDatum == ""
NoPeriod == 0

\* MandatoryData.model_fields
MandatoryGroups == {GroupNames[i] : i \in 1..Len(GroupNames)}

RollupNames == {"starting", "ending", "midpoint", "instant"}

\* What the checks at the head of fetch_data raise ("" when nothing):
\* the datum check comes first, then the rollup check.
ConfigError(c) ==
    IF c.datum # NoDatum /\ c.datum \notin MandatoryGroups THEN "ValueError: datum"
    ELSE IF c.rollup \notin RollupNames THEN "ValueError: rollup"
    ELSE ""

\* The station: Station("720534"), whose recent_wban_id is "00161".
UsafId == "720534"
RecentWbanId == "00161"

\* "/pub/data/noaa/{2}/{0}-{1}-{2}.gz".format(self.usaf_id, wban_id, year)
FileName(wban_id, y) == [usaf_id |-> UsafId, wban_id |-> wban_id, year |-> y]

\* A row of the FileCount table of the station's metadata.
FileCount(wban_id, y) == [wban_id |-> wban_id, year |-> y]

\* select(FileCount).where(station_id == ...).where(year == year): the rows of
\* the inventory for the year, in the order of the table.
FileCountsOf(inventory, year) == SelectSeq(inventory, LAMBDA row : row.year = year)

\* len(filenames) == 0 after the query: no record for the station and year.
MetadataMiss(inventory, year) == FileCountsOf(inventory, year) = <<>>

\* One filename per row found.
FilenamesOfRows(rows) == [i \in 1..Len(rows) |-> FileName(rows[i].wban_id, rows[i].year)]

get_filenames_noGuess(inventory, year) == FilenamesOfRows(FileCountsOf(inventory, year))

\* get_filenames(year): one filename per row of the inventory, or the one
\* built from recent_wban_id when there is none.
get_filenames(inventory, year) ==
    IF MetadataMiss(inventory, year) THEN <<FileName(RecentWbanId, year)>>
    ELSE FilenamesOfRows(FileCountsOf(inventory, year))

\* A warning handed to warnings.warn: its category, the function that warns
\* and, for the warning of get_filenames, the filename it names.
Warning(category, function, filename) ==
    [category |-> category, function |-> function, filename |-> filename]

\* The UserWarning of get_filenames(year), if it warns.
WarningsOf(inventory, year) ==
    IF MetadataMiss(inventory, year)
    THEN <<Warning("UserWarning", "get_filenames", FileName(RecentWbanId, year))>>
    ELSE <<>>

\* warnings.warn(...) for each of ws: inside "with warnings.catch_warnings():
\* warnings.simplefilter('ignore')" the warnings are dropped, elsewhere they
\* reach the caller's warning filters.
Warned(f, ws) ==
    IF f.suppress THEN [f EXCEPT !.ignored = @ \o ws] ELSE [f EXCEPT !.warnings = @ \o ws]

\* filenames = [f for y in year for f in self.get_filenames(y)]
RECURSIVE AllFilenames(_, _)
AllFilenames(inventory, year) ==
    IF year = <<>> THEN <<>>
    ELSE get_filenames(inventory, Head(year)) \o AllFilenames(inventory, Tail(year))

\* The warnings of those calls, in their order.
RECURSIVE AllWarnings(_, _)
AllWarnings(inventory, year) ==
    IF year = <<>> THEN <<>>
    ELSE WarningsOf(inventory, Head(year)) \o AllWarnings(inventory, Tail(year))

\* A file of the server: absent, or its lines.
MissingFile == [exists |-> FALSE, lines |-> <<>>]
FileOf(lines) == [exists |-> TRUE, lines |-> lines]

\* conn.read_file_as_bytes(filename)
read_file_as_bytes(srv, filename) == srv.files[filename]

\* The lines found in the files.
FetchLineA == Replace(BaseLine, 15, <<"2","0","1","8","1","2","3","1","2","3","1","5">>)
FetchLineC ==
    Replace(Replace(BaseLine, 15, <<"2","0","1","9","0","1","0","1","0","0","1","5">>),
            87, <<"+","0","1","0","0">>)
FetchBadLine == Replace(BaseLine, 15, <<"2","0","1","8","1","3","3","1","2","3","1","5">>)
FetchLines == {FetchLineA, FetchLineC, FetchBadLine}

\* parser.parse_line(line.decode("utf-8")) on each of them, evaluated once.
ParsedFetchLines == [l \in FetchLines |-> parse_line(l)]

\* What is kept of an ISDRecord: its timestamp and the columns followed.
FetchedRecord(r) ==
    [dt |-> r.f["control.dt"],
     air_temperature |-> r.f["air_temperature.temperature_c"],
     dew_point |-> r.f["dew_point.temperature_c"],
     air_temperature_f |-> r.f["air_temperature.temperature_f"],
     dew_point_f |-> r.f["dew_point.temperature_f"]]

\* The first line of a file that parse_line raises on (0: none).
FirstBadLine(lines) == FirstOf({i \in 1..Len(lines) : ~ParsedFetchLines[lines[i]].ok})

\* The records of the first n lines.
RecordsOf(lines, n) == [i \in 1..n |-> FetchedRecord(ParsedFetchLines[lines[i]])]

\* Bad lines left out.
ParsedFile_skipBad(lines, bad) ==
    [err |-> "", li |-> 0,
     recs |-> RecordsOf(SelectSeq(lines, LAMBDA l : ParsedFetchLines[l].ok),
                        Len(SelectSeq(lines, LAMBDA l : ParsedFetchLines[l].ok)))]

\* The inner loop of fetch_raw_data's list comprehension over one file whose
\* first bad line is bad: the records appended, and the error raised if any.
ParsedFile(lines, bad) ==
    IF bad = 0 THEN [err |-> "", li |-> 0, recs |-> RecordsOf(lines, Len(lines))]
    ELSE [err |-> ParsedFetchLines[lines[bad]].err, li |-> bad,
          recs |-> RecordsOf(lines, bad - 1)]

\* The results of fetch_data: a table, or an exception.  An exception carries
\* its type; nothing on the way from parse_line to the caller attaches a
\* filename or a line number to it.
Returned(rows) ==
    [kind |-> "table", rows |-> rows, columns |-> {}, tz |-> "UTC", err |-> "",
     filename |-> NoFile, lineno |-> 0]
Raised(e) ==
    [kind |-> "error", rows |-> <<>>, columns |-> {}, tz |-> "", err |-> e,
     filename |-> NoFile, lineno |-> 0]

\* The list of records fetch_raw_data returns, as the rows they make.
RecordList(rows) ==
    [kind |-> "records", rows |-> rows, columns |-> {}, tz |-> "", err |-> "",
     filename |-> NoFile, lineno |-> 0]

\* The column followed: dew_point.temperature_c for datum="dew_point",
\* air_temperature.temperature_c otherwise.
ColumnOf(r, datum) == IF datum = "dew_point" THEN r.dew_point ELSE r.air_temperature

\* temp_scale.lower() for the scales of the model.
LowerScale(temp_scale) ==
    CASE temp_scale = "F" -> "f" [] temp_scale = "C" -> "c" [] OTHER -> temp_scale

\* The temperature column of the datum that temp_scale leaves in df: with
\* temp_scale "f" the temperature_c columns are removed and temperature_f is
\* followed (stations.py:694-698).
ScaledColumnOf(r, datum, temp_scale) ==
    IF LowerScale(temp_scale) = "f"
    THEN IF datum = "dew_point" THEN r.dew_point_f ELSE r.air_temperature_f
    ELSE ColumnOf(r, datum)

TableOf_sortedByTime(data, datum, temp_scale) ==
    SortByTime([i \in 1..Len(data) |->
                   Sample(Timestamp(data[i].dt), ScaledColumnOf(data[i], datum, temp_scale))])

\* df: the rows in the order the records were fetched (stations.py:673-697).
TableOf(data, datum, temp_scale) ==
    [i \in 1..Len(data) |->
        Sample(Timestamp(data[i].dt), ScaledColumnOf(data[i], datum, temp_scale))]

RolledResult(r) == IF r.err # "" THEN Raised(r.err) ELSE Returned(r.rows)

\* The dispatch on rollup, stations.py:704-711.
RollupOf(table, c) ==
    IF c.rollup = "starting"
    THEN Returned(rollup_starting(table, c.period, c.upsample_first))
    ELSE IF c.rollup = "ending"
    THEN Returned(rollup_ending(table, c.period, c.upsample_first))
    ELSE IF c.rollup = "midpoint"
    THEN RolledResult(rollup_midpoint(table, c.period, c.upsample_first))
    ELSE Returned(rollup_instant(table, c.period, c.upsample_first))

----------------------------------------------------------------------------
(* The columns of the table of fetch_data and its time zone *)

\* The name of the column of pd.json_normalize for a field of the record: a
\* field of the control section under its own name, a field of a mandatory
\* group as "group.field".
ColumnText(f) ==
    CASE f = "control.total_variable_characters" ->
       <<"t","o","t","a","l","_","v","a","r","i","a","b","l","e","_","c","h","a","r","a","c","t","e","r","s">>
  [] f = "control.usaf_id" ->
       <<"u","s","a","f","_","i","d">>
  [] f = "control.wban_id" ->
       <<"w","b","a","n","_","i","d">>
  [] f = "control.data_source_flag" ->
       <<"d","a","t","a","_","s","o","u","r","c","e","_","f","l","a","g">>
  [] f = "control.latitude" ->
       <<"l","a","t","i","t","u","d","e">>
  [] f = "control.longitude" ->
       <<"l","o","n","g","i","t","u","d","e">>
  [] f = "control.report_type_code" ->
       <<"r","e","p","o","r","t","_","t","y","p","e","_","c","o","d","e">>
  [] f = "control.elevation" ->
       <<"e","l","e","v","a","t","i","o","n">>
  [] f = "control.call_letter_id" ->
       <<"c","a","l","l","_","l","e","t","t","e","r","_","i","d">>
  [] f = "control.qc_process_name" ->
       <<"q","c","_","p","r","o","c","e","s","s","_","n","a","m","e">>
  [] f = "wind.direction_angle" ->
       <<"w","i","n","d",".","d","i","r","e","c","t","i","o","n","_","a","n","g","l","e">>
  [] f = "wind.direction_quality_code" ->
       <<"w","i","n","d",".","d","i","r","e","c","t","i","o","n","_","q","u","a","l","i","t","y","_","c","o","d","e">>
  [] f = "wind.type_code" ->
       <<"w","i","n","d",".","t","y","p","e","_","c","o","d","e">>
  [] f = "wind.speed_rate" ->
       <<"w","i","n","d",".","s","p","e","e","d","_","r","a","t","e">>
  [] f = "wind.speed_quality_code" ->
       <<"w","i","n","d",".","s","p","e","e","d","_","q","u","a","l","i","t","y","_","c","o","d","e">>
  [] f = "ceiling.ceiling_height" ->
       <<"c","e","i","l","i","n","g",".","c","e","i","l","i","n","g","_","h","e","i","g","h","t">>
  [] f = "ceiling.ceiling_quality_code" ->
       <<"c","e","i","l","i","n","g",".","c","e","i","l","i","n","g","_","q","u","a","l","i","t","y","_","c","o","d","e">>
  [] f = "ceiling.ceiling_determination_code" ->
       <<"c","e","i","l","i","n","g",".","c","e","i","l","i","n","g","_","d","e","t","e","r","m","i","n","a","t","i","o","n","_","c","o","d","e">>
  [] f = "ceiling.cavok_code" ->
       <<"c","e","i","l","i","n","g",".","c","a","v","o","k","_","c","o","d","e">>
  [] f = "visibility.distance" ->
       <<"v","i","s","i","b","i","l","i","t","y",".","d","i","s","t","a","n","c","e">>
  [] f = "visibility.distance_quality_code" ->
       <<"v","i","s","i","b","i","l","i","t","y",".","d","i","s","t","a","n","c","e","_","q","u","a","l","i","t","y","_","c","o","d","e">>
  [] f = "visibility.variability_code" ->
       <<"v","i","s","i","b","i","l","i","t","y",".","v","a","r","i","a","b","i","l","i","t","y","_","c","o","d","e">>
  [] f = "visibility.variability_quality_code" ->
       <<"v","i","s","i","b","i","l","i","t","y",".","v","a","r","i","a","b","i","l","i","t","y","_","q","u","a","l","i","t","y","_","c","o","d","e">>
  [] f = "air_temperature.temperature_c" ->
       <<"a","i","r","_","t","e","m","p","e","r","a","t","u","r","e",".","t","e","m","p","e","r","a","t","u","r","e","_","c">>
  [] f = "air_temperature.quality_code" ->
       <<"a","i","r","_","t","e","m","p","e","r","a","t","u","r","e",".","q","u","a","l","i","t","y","_","c","o","d","e">>
  [] f = "dew_point.temperature_c" ->
       <<"d","e","w","_","p","o","i","n","t",".","t","e","m","p","e","r","a","t","u","r","e","_","c">>
  [] f = "dew_point.quality_code" ->
       <<"d","e","w","_","p","o","i","n","t",".","q","u","a","l","i","t","y","_","c","o","d","e">>
  [] f = "sea_level_pressure.pressure" ->
       <<"s","e","a","_","l","e","v","e","l","_","p","r","e","s","s","u","r","e",".","p","r","e","s","s","u","r","e">>
  [] f = "sea_level_pressure.quality_code" ->
       <<"s","e","a","_","l","e","v","e","l","_","p","r","e","s","s","u","r","e",".","q","u","a","l","i","t","y","_","c","o","d","e">>
  [] f = "air_temperature.temperature_f" ->
       <<"a","i","r","_","t","e","m","p","e","r","a","t","u","r","e",".","t","e","m","p","e","r","a","t","u","r","e","_","f">>
  [] f = "dew_point.temperature_f" ->
       <<"d","e","w","_","p","o","i","n","t",".","t","e","m","p","e","r","a","t","u","r","e","_","f">>

\* Index.str.contains(sub): the pattern occurs somewhere in the text.
Contains(text, sub) ==
    \E i \in 1..(Len(text) - Len(sub) + 1) : SubSeq(text, i, i + Len(sub) - 1) = sub

\* d.control.model_dump(exclude={"dt"})
ControlColumns == GroupFields("control") \ {"control.dt"}

\* model_dump of an observation group: its fields and its computed fields.
DumpedFields(g) ==
    GroupFields(g) \cup {f \in ComputedFields : SourceField(f) \in GroupFields(g)}

\* d.mandatory.model_dump(include=datum): every group, or the one asked for.
MandatoryColumns(datum) ==
    UNION {DumpedFields(g) : g \in {h \in MandatoryGroups : datum = NoDatum \/ h = datum}}

\* The same for each datum, evaluated once.
MandatoryColumnsBy == [d \in {NoDatum} \cup MandatoryGroups |-> MandatoryColumns(d)]

\* The columns df can have.
TableColumns == ControlColumns \cup MandatoryColumns(NoDatum)

\* df.columns.str.contains(...) for the three patterns of fetch_data, over
\* the columns df can have.
ContainQualityCode ==
    {f \in TableColumns :
        Contains(ColumnText(f), <<"q","u","a","l","i","t","y","_","c","o","d","e">>)}
ContainTemperatureF ==
    {f \in TableColumns :
        Contains(ColumnText(f), <<"t","e","m","p","e","r","a","t","u","r","e","_","f">>)}
ContainTemperatureC ==
    {f \in TableColumns :
        Contains(ColumnText(f), <<"t","e","m","p","e","r","a","t","u","r","e","_","c">>)}

\* _AGGREGABLE_FIELDS as column names.
AggregableColumns ==
    {"wind.speed_rate", "ceiling.ceiling_height", "visibility.distance",
     "air_temperature.temperature_c", "air_temperature.temperature_f",
     "dew_point.temperature_c", "dew_point.temperature_f",
     "sea_level_pressure.pressure"}

QualityCodesDropped_keepAll(c, columns) == columns

\* if not include_quality_codes: drop the columns named *quality_code*.
QualityCodesDropped(c, columns) ==
    IF c.include_quality_codes THEN columns
    ELSE columns \ ContainQualityCode

\* if temp_scale is not None: keep the temperatures of one scale.
TempScaleKept(c, columns) ==
    IF LowerScale(c.temp_scale) = "c" THEN columns \ ContainTemperatureF
    ELSE IF LowerScale(c.temp_scale) = "f" THEN columns \ ContainTemperatureC
    ELSE columns

AggregableKept_all(c, columns) == columns

\* if period is not None: df.loc[:, [c for c in df.columns if c in cols_to_keep]]
AggregableKept(c, columns) ==
    IF c.period = NoPeriod THEN columns ELSE columns \cap AggregableColumns

\* The columns of df (stations.py:675-702).  pd.json_normalize of an empty
\* list has no columns.
ColumnsOf(c, data) ==
    IF data = <<>> THEN {}
    ELSE AggregableKept(c,
            TempScaleKept(c,
               QualityCodesDropped(c,
                  (IF c.include_control THEN ControlColumns ELSE {})
                      \cup MandatoryColumnsBy[c.datum])))

\* The offset from UTC, in minutes, of the wall clock of a time zone at the
\* instants of the files (31 December and 1 January: standard time).
UtcOffset(tz) ==
    CASE tz = "UTC" -> 0
      [] tz = "US/Mountain" -> 0 - 420
      [] tz = "Asia/Kolkata" -> 330

\* What the index shows for an instant in a time zone (minutes of wall clock).
WallClock(t, tz) == t + UtcOffset(tz)

\* df.tz_convert(tz): the instants stay, the zone they are shown in changes.
tz_convert(res, tz) == IF res.kind = "table" THEN [res EXCEPT !.tz = tz] ELSE res

ConvertedResult_convertFirst(table, c, columns) ==
    LET res == IF c.period = NoPeriod THEN Returned(table)
               ELSE RollupOf(Shift(table, UtcOffset(c.tz)), c)
    IN tz_convert([res EXCEPT !.columns = IF res.kind = "table" THEN columns ELSE {},
                              !.rows = Shift(res.rows, 0 - UtcOffset(c.tz))], c.tz)

\* stations.py:700-715: the rollup on the table indexed in UTC, then
\* tz_convert when tz is not "UTC".
ConvertedResult(table, c, columns) ==
    LET res == IF c.period = NoPeriod THEN Returned(table) ELSE RollupOf(table, c)
    IN tz_convert([res EXCEPT !.columns = IF res.kind = "table" THEN columns ELSE {}],
                  c.tz)

----------------------------------------------------------------------------
(* fetch_data applied to bounded calls and servers *)

MaxFileLines == 2

FetchYears == {2018, 2019}
YearLists == {<<2018>>, <<2019>>, <<2018, 2019>>, <<2019, 2018>>}
Datums == {NoDatum, "dew_point", "humidity"}
Rollups == RollupNames \cup {"average"}
FetchPeriods == {NoPeriod, 60, MonthStart}

\* The calls tried.  Resampling to calendar months is not modelled: "MS" is
\* given only where the call ends before resampling by it.  Without a period
\* upsample_first has no effect and keeps its default.
CallOf(method, inventory, year, datum, p, how, upsampleFirst, includeControl,
       includeQualityCodes, tempScale, tz) ==
    [method |-> method, inventory |-> inventory, year |-> year, datum |-> datum,
     period |-> p, rollup |-> how, upsample_first |-> upsampleFirst,
     include_control |-> includeControl, include_quality_codes |-> includeQualityCodes,
     temp_scale |-> tempScale, tz |-> tz]

\* The metadata of a station with one file a year.
FullInventory == <<FileCount(RecentWbanId, 2018), FileCount(RecentWbanId, 2019)>>

\* fetch_data with its defaults for include_control, include_quality_codes,
\* temp_scale and tz.
DefaultCall(year, datum, p, how, upsampleFirst) ==
    CallOf("fetch_data", FullInventory, year, datum, p, how, upsampleFirst,
           FALSE, TRUE, "", "UTC")

Calls ==
    {DefaultCall(c.year, c.datum, c.period, c.rollup, c.upsample_first) :
        c \in {d \in [year : YearLists, datum : Datums, period : FetchPeriods,
                      rollup : Rollups, upsample_first : BOOLEAN] :
                  /\ d.period = MonthStart => d.rollup \in {"midpoint", "average"}
                  /\ d.period = NoPeriod => d.upsample_first}}

FilesOf(lines, least) ==
    {FileOf(ls) : ls \in UNION {[1..k -> lines] : k \in least..MaxFileLines}}

FileChoices == {MissingFile} \cup FilesOf(FetchLines, 0)

\* The files the server may be asked for.
WbanIds == {RecentWbanId, "99999"}
RemoteFiles == {FileName(w, y) : w \in WbanIds, y \in FetchYears}

\* The filenames a call asks for.
Requested(c) ==
    {AllFilenames(c.inventory, c.year)[i] : i \in 1..Len(AllFilenames(c.inventory, c.year))}

\* A server that refuses the connection, or one that holds a file out of
\* choices for each of the names asked for, and no other.
ServersFor(names, choices) ==
    {[up |-> FALSE, files |-> [f \in RemoteFiles |-> MissingFile]]} \cup
    {[up |-> TRUE, files |-> [f \in RemoteFiles |-> IF f \in names THEN g[f] ELSE MissingFile]] :
        g \in [names -> choices]}

Fetching(pc, filenames, conn, fi, li, data, table) ==
    [pc |-> pc, filenames |-> filenames, warnings |-> <<>>, ignored |-> <<>>,
     suppress |-> FALSE, conn |-> conn, fi |-> fi, li |-> li, data |-> data,
     table |-> table]

\* A call of fetch_data; the files of years not asked for are left out.
InitFetch ==
    /\ call \in Calls
    /\ server \in ServersFor(Requested(call), FileChoices)
    /\ fetch = Fetching("start", <<>>, "none", 0, 0, <<>>, <<>>)
    /\ result = NoResult
    /\ ParserIdle
    /\ CodecIdle
    /\ RollupIdle
    /\ ConnIdle

\* The datum and rollup checks, stations.py:660-670.
CheckArguments ==
    /\ fetch.pc = "start"
    /\ IF ConfigError(call) # ""
       THEN /\ result' = Raised(ConfigError(call))
            /\ fetch' = [fetch EXCEPT !.pc = "done"]
       ELSE /\ fetch' = [fetch EXCEPT !.pc = "get_filenames"]
            /\ UNCHANGED result
    /\ UNCHANGED <<call, server, codecVars, parserVars, rollupVars, connVars>>

\* fetch_raw_data: the filenames of the years, stations.py:581.
GetFilenames ==
    /\ fetch.pc = "get_filenames"
    /\ fetch' = [Warned(fetch, AllWarnings(call.inventory, call.year)) EXCEPT
                     !.pc = "connect",
                     !.filenames = AllFilenames(call.inventory, call.year)]
    /\ UNCHANGED <<call, server, result, codecVars, parserVars, rollupVars, connVars>>

\* with connector() as conn, stations.py:584.
Connect ==
    /\ fetch.pc = "connect"
    /\ IF server.up
       THEN /\ fetch' = [fetch EXCEPT !.pc = "read", !.conn = "open"]
            /\ UNCHANGED result
       ELSE /\ fetch' = [fetch EXCEPT !.pc = "done", !.suppress = FALSE]
            /\ result' = Raised("NOAAFTPConnectionError")
    /\ UNCHANGED <<call, server, codecVars, parserVars, rollupVars, connVars>>

\* The next file of the list comprehension given its content and what parsing
\* its lines gives: an exception leaves the with block, which closes the
\* connection, and reaches the caller; after the last file the list is
\* returned.
ReadParsed(file, parsed) ==
    IF ~file.exists
    THEN /\ fetch' = [fetch EXCEPT !.pc = "done", !.conn = "closed", !.fi = @ + 1]
         /\ result' = Raised("NOAAFTPConnectionError")
    ELSE IF parsed.err # ""
    THEN /\ fetch' = [fetch EXCEPT !.pc = "done", !.conn = "closed", !.fi = @ + 1,
                                   !.li = parsed.li, !.data = @ \o parsed.recs]
         /\ result' = Raised(parsed.err)
    ELSE /\ fetch' = [fetch EXCEPT
                         !.pc = IF fetch.fi + 1 = Len(fetch.filenames)
                                THEN "assemble" ELSE "read",
                         !.conn = IF fetch.fi + 1 = Len(fetch.filenames)
                                  THEN "closed" ELSE "open",
                         !.fi = @ + 1, !.data = @ \o parsed.recs]
         /\ UNCHANGED result

ReadFile ==
    /\ fetch.pc = "read"
    /\ ReadParsed(read_file_as_bytes(server, fetch.filenames[fetch.fi + 1]),
                  ParsedFile(read_file_as_bytes(server, fetch.filenames[fetch.fi + 1]).lines,
                             FirstBadLine(read_file_as_bytes(server,
                                              fetch.filenames[fetch.fi + 1]).lines)))
    /\ UNCHANGED <<call, server, codecVars, parserVars, rollupVars, connVars>>

\* fetch_raw_data returns its list.  fetch_data builds the table from the
\* records and selects its columns; without a period it converts the time
\* zone and returns.
Assemble ==
    /\ fetch.pc = "assemble"
    /\ fetch' = [fetch EXCEPT !.pc = IF call.period = NoPeriod \/ call.method = "fetch_raw_data"
                                     THEN "done" ELSE "rollup",
                              !.table = TableOf(fetch.data, call.datum, call.temp_scale)]
    /\ result' = IF call.method = "fetch_raw_data"
                 THEN RecordList(TableOf(fetch.data, call.datum, ""))
                 ELSE IF call.period = NoPeriod
                 THEN ConvertedResult(TableOf(fetch.data, call.datum, call.temp_scale), call,
                                      ColumnsOf(call, fetch.data))
                 ELSE result
    /\ UNCHANGED <<call, server, codecVars, parserVars, rollupVars, connVars>>

\* The rollup function named by the call is applied to the table.
RollupTable ==
    /\ fetch.pc = "rollup"
    /\ fetch' = [fetch EXCEPT !.pc = "done"]
    /\ result' = ConvertedResult(fetch.table, call, ColumnsOf(call, fetch.data))
    /\ UNCHANGED <<call, server, codecVars, parserVars, rollupVars, connVars>>

NextFetch ==
    \/ CheckArguments
    \/ GetFilenames
    \/ Connect
    \/ ReadFile
    \/ Assemble
    \/ RollupTable

SpecFetch == InitFetch /\ [][NextFetch]_vars

----------------------------------------------------------------------------
(* fetch_data and fetch_raw_data with options and incomplete metadata *)

OptionYearLists == {<<2018>>, <<2018, 2019>>, <<2019, 2018>>}
TimeZones == {"UTC", "US/Mountain", "Asia/Kolkata"}

\* Inventories of the station: no record at all, a record for one year only,
\* two records (two wban_ids) for 2018.
Inventories ==
    {<<>>,
     <<FileCount(RecentWbanId, 2018)>>,
     <<FileCount(RecentWbanId, 2019)>>,
     <<FileCount("99999", 2018), FileCount(RecentWbanId, 2018)>>,
     <<FileCount("99999", 2018), FileCount(RecentWbanId, 2018),
       FileCount(RecentWbanId, 2019)>>,
     FullInventory}

\* Calls that select columns.
ColumnCalls ==
    {CallOf("fetch_data", FullInventory, c.year, c.datum, c.period, "starting", TRUE,
            c.include_control, c.include_quality_codes, c.temp_scale, "UTC") :
        c \in [year : {<<2018>>, <<2019, 2018>>},
               datum : {NoDatum, "air_temperature", "dew_point"},
               period : {NoPeriod, 60}, include_control : BOOLEAN,
               include_quality_codes : BOOLEAN, temp_scale : {"", "C", "F", "f"}]}

\* Calls that name a time zone.
ZoneCalls ==
    {CallOf("fetch_data", FullInventory, c.year, c.datum, c.period, c.rollup,
            c.upsample_first, FALSE, TRUE, "", c.tz) :
        c \in {d \in [year : OptionYearLists, datum : {"dew_point"},
                      period : {NoPeriod, 60}, rollup : RollupNames,
                      upsample_first : BOOLEAN, tz : TimeZones] :
                  d.period = NoPeriod => (d.upsample_first /\ d.rollup = "ending")}}

\* Calls of fetch_raw_data and fetch_data on a station whose metadata may
\* lack the year.
InventoryCalls ==
    {CallOf(c.method, c.inventory, c.year, NoDatum, c.period, "ending", TRUE,
            FALSE, TRUE, "", "UTC") :
        c \in {d \in [method : {"fetch_data", "fetch_raw_data"}, inventory : Inventories,
                      year : OptionYearLists, period : {NoPeriod, 60}] :
                  d.method = "fetch_raw_data" => d.period = NoPeriod}}

OptionCalls == ColumnCalls \cup ZoneCalls \cup InventoryCalls

\* The files hold one or two lines that parse, or are absent: what pandas
\* makes of a table without rows is not followed here.
OptionFileChoices ==
    {MissingFile} \cup FilesOf({FetchLineA, FetchLineC}, 1)

\* fetch_raw_data has no arguments to check.
InitFetchOptions ==
    /\ call \in OptionCalls
    /\ server \in ServersFor(Requested(call), OptionFileChoices)
    /\ fetch = Fetching(IF call.method = "fetch_raw_data" THEN "get_filenames" ELSE "start",
                        <<>>, "none", 0, 0, <<>>, <<>>)
    /\ result = NoResult
    /\ ParserIdle
    /\ CodecIdle
    /\ RollupIdle
    /\ ConnIdle

SpecFetchOptions == InitFetchOptions /\ [][NextFetch]_vars

----------------------------------------------------------------------------
(* fetch_raw_temp_data and fetch_temp_data (deprecated) *)

\* _parse_temp: float(s) / 10.0 unless s is "+9999", which gives NaN.
parse_temp(s) ==
    IF s = <<"+", "9", "9", "9", "9">> THEN None ELSE FloatDiv(ParseFloat(s), 10)

\* int(s) of Python for a text: surrounding whitespace is dropped, a sign may
\* lead, single underscores may separate digits; anything else is ValueError.
PyIntUnsigned(sgn, body) ==
    IF IsDigitPart(body) THEN IntV(sgn * DigitsValue(body)) ELSE ErrV("ValueError")

PyIntStripped(t) ==
    IF t # <<>> /\ Head(t) = "-" THEN PyIntUnsigned(-1, Tail(t))
    ELSE IF t # <<>> /\ Head(t) = "+" THEN PyIntUnsigned(1, Tail(t))
    ELSE PyIntUnsigned(1, t)

PyInt(s) == PyIntStripped(Strip(s))

\* int(line[60:63]) unless the text is "999", which gives NaN.
parse_wind_dir(s) == IF s = <<"9", "9", "9">> THEN None ELSE PyInt(s)

\* float(line[65:69]) / 10.0 unless the text is "9999", which gives NaN.
parse_wind_speed(s) ==
    IF s = <<"9", "9", "9", "9">> THEN None ELSE FloatDiv(ParseFloat(s), 10)

\* What fetch_raw_temp_data reads from a line (stations.py:763-770): the
\* timestamp, the wind direction and speed, and the two temperatures.  Each
\* of the five conversions raises ValueError on a text it cannot read.
TempRecord(l) ==
    [dt |-> parse_datetime(PySlice(l, 15, 27)),
     wind_dir |-> parse_wind_dir(PySlice(l, 60, 63)),
     wind_speed |-> parse_wind_speed(PySlice(l, 65, 69)),
     air_temperature |-> parse_temp(PySlice(l, 87, 92)),
     dew_point |-> parse_temp(PySlice(l, 93, 98))]

\* The line raises: one of its conversions failed.
TempRecordRaises(r) ==
    IsErr(r.dt) \/ IsErr(r.wind_dir) \/ IsErr(r.wind_speed)
        \/ IsErr(r.air_temperature) \/ IsErr(r.dew_point)

\* A line whose wind direction is blank.
TempLineBlankWind == Replace(FetchLineA, 60, <<" ", " ", " ">>)

TempLines == {FetchLineA, FetchLineC, TempLineBlankWind}
TempRecords == [l \in TempLines |-> TempRecord(l)]

\* The positions where a new timestamp starts in rows sorted by time, and
\* the k-th of them.
RunStarts(rows) == {i \in 1..Len(rows) : i = 1 \/ rows[i].t # rows[i - 1].t}
NthStart(rows, k) ==
    CHOOSE i \in RunStarts(rows) : Cardinality({j \in RunStarts(rows) : j <= i}) = k

\* ts.groupby(ts.index).mean() for rows sorted by time.
GroupedByIndex(rows) ==
    [k \in 1..Cardinality(RunStarts(rows)) |->
        Sample(rows[NthStart(rows, k)].t,
               GroupMean(SelectSeq(rows, LAMBDA r : r.t = rows[NthStart(rows, k)].t)))]

\* The column followed (the dew point for value="dew_point", the air
\* temperature otherwise), in the scale asked for.
TempValue(r, c) ==
    IF c.temp_scale = "F" THEN temperature_f(ColumnOf(r, c.datum)) ELSE ColumnOf(r, c.datum)

\* sorted(data), the frame in the scale asked for, and the mean by timestamp
\* (stations.py:772-782).
TempTable(data, c) ==
    GroupedByIndex(SortByTime([i \in 1..Len(data) |->
                                  Sample(Timestamp(data[i].dt), TempValue(data[i], c))]))

Deprecation(function) == Warning("DeprecationWarning", function, NoFile)

\* The checks at the head of fetch_temp_data ("" when they pass).
TempConfigError(c) ==
    IF c.datum \notin {"", "temperature", "dew_point"} THEN "ValueError: value"
    ELSE IF c.rollup \notin RollupNames THEN "ValueError: rollup"
    ELSE ""

TempScales == {"C", "F", "K"}
TempValues == {"", "temperature", "dew_point", "humidity"}
TempRollups == {"ending", "instant", "average"}

\* Calls for one year, on a station whose metadata may lack it.
TempCalls ==
    {CallOf("fetch_raw_temp_data", c.inventory, <<c.year>>, "", NoPeriod, "", FALSE,
            FALSE, TRUE, c.scale, "UTC") :
        c \in [inventory : Inventories, year : FetchYears, scale : TempScales]}
    \cup
    {CallOf("fetch_temp_data", c.inventory, <<c.year>>, c.value, 60, c.rollup, TRUE,
            FALSE, TRUE, c.scale, "UTC") :
        c \in {d \in [inventory : Inventories, year : FetchYears, value : TempValues,
                      scale : TempScales, rollup : TempRollups] :
                  d.scale = "K" => (d.value = "" /\ d.rollup = "ending")}}

InitTempFetch ==
    /\ call \in TempCalls
    /\ server \in ServersFor(Requested(call), {MissingFile} \cup FilesOf(TempLines, 0))
    /\ fetch = Fetching(IF call.method = "fetch_temp_data" THEN "start" ELSE "raw",
                        <<>>, "none", 0, 0, <<>>, <<>>)
    /\ result = NoResult
    /\ ParserIdle
    /\ CodecIdle
    /\ RollupIdle
    /\ ConnIdle

\* fetch_temp_data up to its call of fetch_raw_temp_data (stations.py:835-850):
\* the deprecation warning, the checks of value and rollup, then the block
\* that ignores every warning.
TempStart ==
    /\ fetch.pc = "start"
    /\ call.method = "fetch_temp_data"
    /\ IF TempConfigError(call) # ""
       THEN /\ fetch' = [Warned(fetch, <<Deprecation("fetch_temp_data")>>) EXCEPT
                            !.pc = "done"]
            /\ result' = Raised(TempConfigError(call))
       ELSE /\ fetch' = [Warned(fetch, <<Deprecation("fetch_temp_data")>>) EXCEPT
                            !.pc = "raw", !.suppress = TRUE]
            /\ UNCHANGED result
    /\ UNCHANGED <<call, server, codecVars, parserVars, rollupVars, connVars>>

\* The head of fetch_raw_temp_data (stations.py:749-758): its deprecation
\* warning, get_filenames(year) with its warning, then the check of scale.
RawTempStarted(f, c) ==
    [Warned(Warned(f, <<Deprecation("fetch_raw_temp_data")>>),
            WarningsOf(c.inventory, c.year[1])) EXCEPT
        !.filenames = get_filenames(c.inventory, c.year[1])]

RawTempStart ==
    /\ fetch.pc = "raw"
    /\ IF call.temp_scale \notin {"C", "F"}
       THEN /\ fetch' = [RawTempStarted(fetch, call) EXCEPT !.pc = "done", !.suppress = FALSE]
            /\ result' = Raised("ValueError: scale")
       ELSE /\ fetch' = [RawTempStarted(fetch, call) EXCEPT !.pc = "connect"]
            /\ UNCHANGED result
    /\ UNCHANGED <<call, server, codecVars, parserVars, rollupVars, connVars>>

\* The next file of the loop of fetch_raw_temp_data (stations.py:761-770).
ReadTempLines(file) ==
    IF ~file.exists
    THEN /\ fetch' = [fetch EXCEPT !.pc = "done", !.conn = "closed", !.fi = @ + 1,
                                   !.suppress = FALSE]
         /\ result' = Raised("NOAAFTPConnectionError")
    ELSE IF \E i \in 1..Len(file.lines) : TempRecordRaises(TempRecords[file.lines[i]])
    THEN /\ fetch' = [fetch EXCEPT !.pc = "done", !.conn = "closed", !.fi = @ + 1,
                                   !.suppress = FALSE]
         /\ result' = Raised("ValueError")
    ELSE /\ fetch' = [fetch EXCEPT
                         !.pc = IF fetch.fi + 1 = Len(fetch.filenames)
                                THEN "frame" ELSE "read",
                         !.conn = IF fetch.fi + 1 = Len(fetch.filenames)
                                  THEN "closed" ELSE "open",
                         !.fi = @ + 1,
                         !.data = @ \o [i \in 1..Len(file.lines) |-> TempRecords[file.lines[i]]]]
         /\ UNCHANGED result

ReadTempFile ==
    /\ fetch.pc = "read"
    /\ ReadTempLines(read_file_as_bytes(server, fetch.filenames[fetch.fi + 1]))
    /\ UNCHANGED <<call, server, codecVars, parserVars, rollupVars, connVars>>

\* stations.py:772-782: zip(*sorted(data)) raises ValueError when no line was
\* read; fetch_raw_temp_data returns the frame, and fetch_temp_data leaves
\* the block that ignores warnings.
TempFrame ==
    /\ fetch.pc = "frame"
    /\ IF fetch.data = <<>>
       THEN /\ fetch' = [fetch EXCEPT !.pc = "done", !.suppress = FALSE]
            /\ result' = Raised("ValueError")
       ELSE /\ fetch' = [fetch EXCEPT
                            !.pc = IF call.method = "fetch_temp_data" THEN "rollup"
                                   ELSE "done",
                            !.suppress = FALSE,
                            !.table = TempTable(fetch.data, call)]
            /\ result' = IF call.method = "fetch_temp_data" THEN result
                         ELSE Returned(TempTable(fetch.data, call))
    /\ UNCHANGED <<call, server, codecVars, parserVars, rollupVars, connVars>>

\* The rollup of fetch_temp_data and the selection of its column
\* (stations.py:851-865).
TempRollup ==
    /\ fetch.pc = "rollup"
    /\ call.method = "fetch_temp_data"
    /\ fetch' = [fetch EXCEPT !.pc = "done"]
    /\ result' = RollupOf(fetch.table, call)
    /\ UNCHANGED <<call, server, codecVars, parserVars, rollupVars, connVars>>

NextTempFetch ==
    \/ TempStart
    \/ RawTempStart
    \/ Connect
    \/ ReadTempFile
    \/ TempFrame
    \/ TempRollup

SpecTempFetch == InitTempFetch /\ [][NextTempFetch]_vars

----------------------------------------------------------------------------
(* NOAAFTPConnection: the connection object and the with statement around it *)

\* str.endswith(suffix)
EndsWith(t, suffix) ==
    /\ Len(t) >= Len(suffix)
    /\ SubSeq(t, Len(t) - Len(suffix) + 1, Len(t)) = suffix

is_compressed_gzOnly(filename) == EndsWith(filename, <<".","g","z">>)

\* utils.is_compressed: filename.endswith((".z", ".gz"))
is_compressed(filename) ==
    EndsWith(filename, <<".","z">>) \/ EndsWith(filename, <<".","g","z">>)

\* The first bytes of a gzip member, and the bytes of b compressed: what the
\* server holds for a compressed file whose content is b.
GzipMagic == <<"1f", "8b">>
GzipCompress(b) == GzipMagic \o <<"deflated">> \o b

\* What reading a stream to its end gives: its bytes, or an error.
ReadBytes(b) == [ok |-> TRUE, bytes |-> b]
ReadError == [ok |-> FALSE, bytes |-> <<>>]

\* gzip.open(stream, "rb") read to its end: the content of the member, nothing
\* for an empty stream, BadGzipFile for bytes that are not a gzip member.
GzipOpen(b) ==
    IF b = <<>> THEN ReadBytes(<<>>)
    ELSE IF Len(b) >= 3 /\ SubSeq(b, 1, 2) = GzipMagic /\ b[3] = "deflated"
    THEN ReadBytes(SubSeq(b, 4, Len(b)))
    ELSE ReadError

\* What a method of the connection returned or raised.  cause is the failure
\* of the FTP exchange behind an exception ("" when there is none), sent the
\* bytes the server sent for a RETR, content what the stream returned gives
\* when read.
Reply(op, outcome, err, cause, filename, sent, content) ==
    [op |-> op, outcome |-> outcome, err |-> err, cause |-> cause,
     filename |-> filename, sent |-> sent, content |-> content]

ReturnedNone(op) == Reply(op, "returned", "", "", <<>>, <<>>, ReadBytes(<<>>))
ConnRaised(op, err, cause, filename) ==
    Reply(op, "raised", err, cause, filename, <<>>, ReadBytes(<<>>))

\* The exceptions ftplib raises: ftplib.all_errors is (Error, OSError,
\* EOFError); a reply the client rejects is an ftplib.Error (error_perm,
\* error_temp, ...), a refused or timed-out socket an OSError, a connection
\* closed by the server an EOFError.
FtplibErrors == {"ftplib.Error", "OSError", "EOFError"}

\* __enter__ when ftplib.FTP(host) and login() end in outcome ("ok" or the
\* exception): only an OSError is caught, and self.ftp is assigned after the
\* login.
EnterReply(outcome) ==
    IF outcome = "ok" THEN ReturnedNone("__enter__")
    ELSE IF outcome = "OSError"
    THEN ConnRaised("__enter__", "NOAAFTPConnectionError", outcome, <<>>)
    ELSE ConnRaised("__enter__", outcome, outcome, <<>>)

\* The names and contents of the files asked for.
PlainContent == <<"m", "o", "c", "k">>
Filenames ==
    {<<"d", ".", "g", "z">>, <<"d", ".", "z">>, <<"d", ".", "c", "s", "v">>,
     <<"d", ".", "g", "z", ".", "t", "x", "t">>, <<"d", ".", "G", "Z">>,
     <<"d", ".", "Z">>, <<"d", ".", "g", "z", "i", "p">>,
     <<"d", "g", "z">>, <<".", "g", "z">>, <<"z">>}
RemoteContents == {<<>>, PlainContent, GzipCompress(PlainContent)}

\* read_file_as_bytes(filename) on a connection whose ftp attribute is f, when
\* the RETR ends in retr: an ftplib exception, or the bytes sent.
ReadReply(f, filename, retr) ==
    IF f = "None"
    THEN ConnRaised("read_file_as_bytes", "NOAAFTPConnectionError", "no connection", filename)
    ELSE IF f = "closed"
    THEN ConnRaised("read_file_as_bytes", "AttributeError", "closed connection", filename)
    ELSE IF ~retr.ok
    THEN ConnRaised("read_file_as_bytes", "NOAAFTPConnectionError", retr.err, filename)
    ELSE Reply("read_file_as_bytes", "returned", "", "", filename, retr.bytes,
               IF is_compressed(filename) THEN GzipOpen(retr.bytes)
               ELSE ReadBytes(retr.bytes))

\* What a RETR can end in.
RetrOutcomes ==
    {[ok |-> TRUE, err |-> "", bytes |-> b] : b \in RemoteContents}
        \cup {[ok |-> FALSE, err |-> e, bytes |-> <<>>] : e \in FtplibErrors}

\* A NOAAFTPConnection() that no with statement has entered yet.
InitConnection ==
    /\ ConnIdle
    /\ CodecIdle
    /\ ParserIdle
    /\ RollupIdle
    /\ FetchIdle

\* with conn: __enter__ (connection.py:55-68).  When it raises the block is
\* not entered and __exit__ is not called.
Enter ==
    /\ with_block \in {"before", "left"}
    /\ \E outcome \in {"ok"} \cup FtplibErrors :
          /\ reply' = EnterReply(outcome)
          /\ ftp' = IF outcome = "ok" THEN "connected" ELSE ftp
          /\ with_block' = IF outcome = "ok" THEN "inside" ELSE with_block
    /\ UNCHANGED <<codecVars, parserVars, rollupVars, fetchVars>>

\* conn.read_file_as_bytes(filename) (connection.py:85-109), inside or outside
\* a with block.  An exception raised inside the block leaves it.
ReadFileAsBytes ==
    /\ with_block \in {"before", "inside", "left"}
    /\ \E filename \in Filenames, retr \in RetrOutcomes :
          /\ reply' = ReadReply(ftp, filename, retr)
          /\ with_block' =
                IF with_block = "inside" /\ ReadReply(ftp, filename, retr).outcome = "raised"
                THEN "leaving" ELSE with_block
    /\ UNCHANGED <<ftp, codecVars, parserVars, rollupVars, fetchVars>>

\* What the body of the with block of fetch_raw_data raises besides the
\* errors of read_file_as_bytes (stations.py:584-589): reading the lines of
\* a ".gz" file raises gzip.BadGzipFile when the content is not gzip,
\* EOFError when it is cut short and zlib.error when its deflate stream is
\* damaged; line.decode raises UnicodeDecodeError; parse_line raises
\* IndexError and ValidationError.
BodyErrors ==
    {"ValidationError", "IndexError", "UnicodeDecodeError", "BadGzipFile", "EOFError",
     "zlib.error"}

\* Another statement of the body raises.
BodyRaises ==
    /\ with_block = "inside"
    /\ \E err \in BodyErrors : reply' = ConnRaised("body", err, "", <<>>)
    /\ with_block' = "leaving"
    /\ UNCHANGED <<ftp, codecVars, parserVars, rollupVars, fetchVars>>

\* __exit__ (connection.py:70-83) at the end of the body or on the exception
\* that leaves it: quit(); when it raises one of ftplib.all_errors the
\* connection is closed and NOAAFTPConnectionError raised, self.ftp = None is
\* not reached.  After a quiet __exit__ the exception of the body goes on.
Exit ==
    /\ with_block \in {"inside", "leaving"}
    /\ \E quit \in {"ok"} \cup FtplibErrors :
          IF quit = "ok"
          THEN /\ ftp' = "None"
               /\ reply' = IF with_block = "leaving" THEN reply
                           ELSE ReturnedNone("__exit__")
          ELSE /\ ftp' = "closed"
               /\ reply' = ConnRaised("__exit__", "NOAAFTPConnectionError", quit, <<>>)
    /\ with_block' = "left"
    /\ UNCHANGED <<codecVars, parserVars, rollupVars, fetchVars>>

NextConnection ==
    \/ Enter
    \/ ReadFileAsBytes
    \/ BodyRaises
    \/ Exit

SpecConnection == InitConnection /\ [][NextConnection]_vars

----------------------------------------------------------------------------
(* Claims about parse_line *)

\* The layout of the specification: <<field, first offset, offset after the last>>.
LayoutTable ==
    {
       <<"control.total_variable_characters", 0, 4>>,
       <<"control.usaf_id", 4, 10>>,
       <<"control.wban_id", 10, 15>>,
       <<"control.dt", 15, 27>>,
       <<"control.data_source_flag", 27, 28>>,
       <<"control.latitude", 28, 34>>,
       <<"control.longitude", 34, 41>>,
       <<"control.report_type_code", 41, 46>>,
       <<"control.elevation", 46, 51>>,
       <<"control.call_letter_id", 51, 56>>,
       <<"control.qc_process_name", 56, 60>>,
       <<"wind.direction_angle", 60, 63>>,
       <<"wind.direction_quality_code", 63, 64>>,
       <<"wind.type_code", 64, 65>>,
       <<"wind.speed_rate", 65, 69>>,
       <<"wind.speed_quality_code", 69, 70>>,
       <<"ceiling.ceiling_height", 70, 75>>,
       <<"ceiling.ceiling_quality_code", 75, 76>>,
       <<"ceiling.ceiling_determination_code", 76, 77>>,
       <<"ceiling.cavok_code", 77, 78>>,
       <<"visibility.distance", 78, 84>>,
       <<"visibility.distance_quality_code", 84, 85>>,
       <<"visibility.variability_code", 85, 86>>,
       <<"visibility.variability_quality_code", 86, 87>>,
       <<"air_temperature.temperature_c", 87, 92>>,
       <<"air_temperature.quality_code", 92, 93>>,
       <<"dew_point.temperature_c", 93, 98>>,
       <<"dew_point.quality_code", 98, 99>>,
       <<"sea_level_pressure.pressure", 99, 104>>,
       <<"sea_level_pressure.quality_code", 104, 105>>
    }

LayoutFields == {r[1] : r \in LayoutTable}

LayoutOffsets(f) ==
    LET r == CHOOSE x \in LayoutTable : x[1] = f IN r[2]..(r[3] - 1)

\* The characters of a line at a set of 0-indexed offsets, as far as it has them.
CharsAt(l, offsets) == [i \in {j \in offsets : j < Len(l)} |-> l[i + 1]]

Parsed == rec # NotParsed

\* The offsets the model's parse_line reads a field from.
ReadOffsets(f) == FieldRange(f)[1]..(FieldRange(f)[2] - 1)

\* C2 (layout): the 30 fields are read from the offset ranges of the layout,
\* which are pairwise disjoint and cover 0..104 without a gap.
C2_Layout ==
    /\ RawFields = LayoutFields
    /\ Cardinality(LayoutTable) = 30
    /\ \A f \in RawFields : ReadOffsets(f) = LayoutOffsets(f)
    /\ \A f, g \in RawFields : f # g => ReadOffsets(f) \cap ReadOffsets(g) = {}
    /\ UNION {ReadOffsets(f) : f \in RawFields} = 0..104

\* C2 (dependence): of two successive parses that both return a record, a
\* field has the same value in both whenever the two lines agree on the
\* field's own range, whatever differs outside it or beyond offset 105.
C2_FieldDependsOnOwnRange ==
    (rec.ok /\ rec'.ok) =>
        \A f \in LayoutFields :
            CharsAt(line, LayoutOffsets(f)) = CharsAt(line', LayoutOffsets(f))
                => rec'.f[f] = rec.f[f]

\* C2: parse_line reads every field from exactly its range of the layout and
\* a decoded field depends only on the characters of its own range.
C2_FieldsReadFromOwnRanges ==
    [](C2_Layout) /\ [][C2_FieldDependsOnOwnRange]_vars

\* C2 witness: a line with text after offset 105 and with another dew point
\* than the base line has been parsed into a record with the base line's air
\* temperature.
C2_Witness ==
    /\ rec.ok
    /\ Len(line) > 105
    /\ line # BaseLine \o PySlice(line, 105, Len(line))
    /\ rec.f["air_temperature.temperature_c"].k = "float"

\* The 12-character datetime token of the line.
DtToken(l) == PySlice(l, 15, 27)

TwoDigits(t, i) == 10 * DigitVal(t[i]) + DigitVal(t[i + 1])

DtYear(t) == 100 * TwoDigits(t, 1) + TwoDigits(t, 3)

\* A valid calendar date-time in YYYYMMDDHHMM form (years 0001-9999).
IsValidDt(t) ==
    /\ Len(t) = 12
    /\ \A i \in 1..12 : t[i] \in Digits
    /\ DtYear(t) >= 1
    /\ TwoDigits(t, 5) \in 1..12
    /\ TwoDigits(t, 7) >= 1
    /\ TwoDigits(t, 7) <=
          (IF TwoDigits(t, 5) = 2
             THEN (IF DtYear(t) % 4 = 0 /\ (DtYear(t) % 100 # 0 \/ DtYear(t) % 400 = 0)
                     THEN 29 ELSE 28)
             ELSE IF TwoDigits(t, 5) \in {4, 6, 9, 11} THEN 30 ELSE 31)
    /\ TwoDigits(t, 9) \in 0..23
    /\ TwoDigits(t, 11) \in 0..59

\* C3: a valid YYYYMMDDHHMM token yields the timestamp with exactly the
\* token's year, month, day, hour and minute, zero seconds, in UTC; the token
\* alone never makes the parse fail.
C3_ValidDatetimeParsedExactly ==
    (Parsed /\ Len(line) >= 105 /\ IsValidDt(DtToken(line))) =>
        /\ rec.ok =>
              /\ rec.f["control.dt"].k = "datetime"
              /\ rec.f["control.dt"].s =
                    <<DtYear(DtToken(line)), TwoDigits(DtToken(line), 5),
                      TwoDigits(DtToken(line), 7), TwoDigits(DtToken(line), 9),
                      TwoDigits(DtToken(line), 11), 0, "UTC">>
        /\ line = Replace(BaseLine, 15, DtToken(line)) => rec.ok

\* C3 witness: the line of station 720534-00161 with token 201809220115 has
\* been parsed to 2018-09-22T01:15:00Z.
C3_Witness ==
    /\ rec.ok
    /\ rec.f["control.usaf_id"] = StrV(<<"7","2","0","5","3","4">>)
    /\ rec.f["control.wban_id"] = StrV(<<"0","0","1","6","1">>)
    /\ DtToken(line) = <<"2","0","1","8","0","9","2","2","0","1","1","5">>
    /\ rec.f["control.dt"].s = <<2018, 9, 22, 1, 15, 0, "UTC">>

\* C4: parse_line raises, and returns no record, whenever the datetime token
\* is not a valid calendar date-time in YYYYMMDDHHMM form.
C4_InvalidDatetimeRaises ==
    (Parsed /\ Len(line) >= 105 /\ ~IsValidDt(DtToken(line))) => ~rec.ok

\* Word characters and digits, as the claim names them.
IsWordChar(c) == c \in Letters \/ c \in Digits \/ c = "_"

\* C5: a record is returned only if usaf_id is 6 word characters and wban_id
\* is 5 digits.
C5_StationIdsValidated ==
    (Parsed /\ rec.ok) =>
        /\ Len(PySlice(line, 4, 10)) = 6
        /\ \A i \in 5..10 : IsWordChar(line[i])
        /\ Len(PySlice(line, 10, 15)) = 5
        /\ \A i \in 11..15 : line[i] \in Digits

\* C5 witness: a full-length line with a space inside usaf_id has been
\* rejected.
C5_Witness ==
    /\ Parsed
    /\ ~rec.ok
    /\ line = Replace(BaseLine, 4, <<"7","2"," ","5","3","4">>)

\* C6: every line shorter than 105 characters raises.
C6_ShortLineRaises ==
    (Parsed /\ Len(line) < 105) => ~rec.ok

\* C6 witness: a line of 104 characters, whose fields are all valid as far
\* as they go, has been rejected.
C6_Witness ==
    /\ Parsed
    /\ line = PySlice(BaseLine, 0, 104)
    /\ ~rec.ok

TemperatureGroups == {"air_temperature", "dew_point"}

TempC(g) ==
    IF g = "air_temperature" THEN rec.f["air_temperature.temperature_c"]
    ELSE rec.f["dew_point.temperature_c"]

TempF(g) ==
    IF g = "air_temperature" THEN rec.f["air_temperature.temperature_f"]
    ELSE rec.f["dew_point.temperature_f"]

\* C7: in every record temperature_f is temperature_c * 1.8 + 32 when
\* temperature_c is present and absent exactly when temperature_c is absent.
C7_FahrenheitFromCelsius ==
    (Parsed /\ rec.ok) =>
        \A g \in TemperatureGroups :
            /\ TempC(g) = None <=> TempF(g) = None
            /\ TempC(g).k = "float" =>
                  /\ TempF(g).k = "float"
                  /\ TempF(g).n * 10 * TempC(g).d
                        = (18 * TempC(g).n + 320 * TempC(g).d) * TempF(g).d

\* C7 witness: a record with air temperature -2.8 C (26.96 F) and a missing
\* dew point.
C7_Witness ==
    /\ rec.ok
    /\ TempC("air_temperature") = FloatV(-28, 10)
    /\ TempF("air_temperature") = FloatV(2696, 100)
    /\ TempC("dew_point") = None
    /\ TempF("dew_point") = None

\* The scaled fields and their tokens.
ScaledFields ==
    { "control.latitude", "control.longitude", "wind.speed_rate",
      "air_temperature.temperature_c", "dew_point.temperature_c",
      "sea_level_pressure.pressure" }

LayoutToken(l, f) ==
    LET r == CHOOSE x \in LayoutTable : x[1] = f IN PySlice(l, r[2], r[3])

\* C9: a scaled field whose token is neither a sentinel nor a number makes
\* parse_line raise; the field is never decoded to None.
C9_UnparseableScaledFieldRaises ==
    (Parsed /\ Len(line) >= 105) =>
        \A f \in ScaledFields :
            (/\ ~IsNinesToken(Trimmed(LayoutToken(line, f)))
             /\ IsErr(ParseFloat(Trimmed(LayoutToken(line, f)))))
                => (~rec.ok /\ rec.err = "ValidationError")

\* C9 witness: a full-length line whose only defect is a blank air
\* temperature has been rejected.
C9_Witness ==
    /\ Parsed
    /\ line = Replace(BaseLine, 87, <<" "," "," "," "," ">>)
    /\ ~rec.ok

----------------------------------------------------------------------------
(* Claims about the rollups *)

\* The rows of data as an explicit sequence.
Rows(data) == SubSeq(data, 1, Len(data))

\* The series the buckets are filled from.
RollupSource == Rows(IF upsample_first THEN upsample(series, 1) ELSE series)

\* The samples of src with start <= t < start + period.
InBucket(src, start) ==
    {i \in 1..Len(src) : start <= src[i].t /\ src[i].t < start + period}

\* The sum of the values data[i].v for the i of idx within lo..hi.
RECURSIVE SumOf(_, _, _, _)
SumOf(data, idx, lo, hi) ==
    IF lo > hi THEN FloatV(0, 1)
    ELSE IF lo = hi THEN (IF lo \in idx THEN data[lo].v ELSE FloatV(0, 1))
    ELSE LET mid == (lo + hi) \div 2
         IN FloatAdd(SumOf(data, idx, lo, mid), SumOf(data, idx, mid + 1, hi))

MeanOfNonNull(data, idx) ==
    LET nonNull == {i \in idx : data[i].v # None}
        total == SumOf(data, nonNull, 1, Len(data))
    IN IF nonNull = {} THEN None
       ELSE FloatV(total.n, total.d * Cardinality(nonNull))

\* C10: rollup_starting returns one row per bucket [start, start + period),
\* labelled by start: the row's value is the mean of the non-null samples with
\* start <= t < start + period (so a sample exactly on a boundary belongs to the
\* bucket starting there), null when the bucket has none; the buckets follow
\* each other without gap and every sample lies in exactly one of them.
C10_StartingBuckets ==
    (rolled.done /\ rollup = "starting") =>
        LET rows == rolled.rows
            src == RollupSource
        IN /\ \A r \in 1..Len(rows) :
                rows[r].v = MeanOfNonNull(src, InBucket(src, rows[r].t))
           /\ \A r \in 1..(Len(rows) - 1) : rows[r + 1].t = rows[r].t + period
           /\ \A i \in 1..Len(src) :
                Cardinality({r \in 1..Len(rows) :
                                rows[r].t <= src[i].t /\ src[i].t < rows[r].t + period}) = 1

\* The hourly rollup, without upsampling, of 00:01 -> 1, 00:33 -> 2, 01:05 -> 10
\* is 00:00 -> 1.5, 01:00 -> 10.
C10_Witness ==
    /\ series = <<Sample(1, FloatV(1, 1)), Sample(33, FloatV(2, 1)), Sample(65, FloatV(10, 1))>>
    /\ period = 60
    /\ ~upsample_first
    /\ rollup = "starting"
    /\ rolled = Rolled(<<Sample(0, FloatV(3, 2)), Sample(60, FloatV(10, 1))>>)

\* The samples of src with start < t <= start + period.
InEndingBucket(src, start) ==
    {i \in 1..Len(src) : start < src[i].t /\ src[i].t <= start + period}

\* C11: rollup_ending returns one row per bucket (start, start + period],
\* labelled by start + period: the row labelled L has the mean of the non-null
\* samples with L - period < t <= L, null when there is none, so a sample
\* exactly on a boundary T is counted in the row labelled T and in no other;
\* the rows follow each other by one period and every sample lies in exactly
\* one bucket.
C11_EndingBuckets ==
    (rolled.done /\ rollup = "ending") =>
        LET rows == rolled.rows
            src == RollupSource
        IN /\ \A r \in 1..Len(rows) :
                rows[r].v = MeanOfNonNull(src, InEndingBucket(src, rows[r].t - period))
           /\ \A r \in 1..(Len(rows) - 1) : rows[r + 1].t = rows[r].t + period
           /\ \A i \in 1..Len(src) :
                Cardinality({r \in 1..Len(rows) :
                                rows[r].t - period < src[i].t /\ src[i].t <= rows[r].t}) = 1
           /\ \A i \in 1..Len(src) :
                src[i].t % period = 0 =>
                    \E r \in 1..Len(rows) :
                        /\ rows[r].t = src[i].t
                        /\ i \in InEndingBucket(src, rows[r].t - period)

\* Hourly, without upsampling: the sample at 01:00 is averaged with the one at
\* 00:01 in the row labelled 01:00, and the sample at 01:05 is alone in the row
\* labelled 02:00.
C11_Witness ==
    /\ series = <<Sample(1, FloatV(1, 1)), Sample(60, FloatV(2, 1)), Sample(65, FloatV(10, 1))>>
    /\ period = 60
    /\ ~upsample_first
    /\ rollup = "ending"
    /\ rolled = Rolled(<<Sample(60, FloatV(3, 2)), Sample(120, FloatV(10, 1))>>)

\* The series src with every timestamp moved forward by half the period.
ShiftedSource(src) ==
    Rows([i \in 1..Len(src) |-> Sample(src[i].t + period \div 2, src[i].v)])

\* The samples of src with label - period/2 <= t < label + period/2.
InMidpointBucket(src, label) ==
    {i \in 1..Len(src) :
        label - period \div 2 <= src[i].t /\ src[i].t < label + period \div 2}

\* C12: for a period of fixed length, rollup_midpoint returns what
\* rollup_starting's bucketing returns for the series with every timestamp moved
\* forward by half the period: the row labelled L has the mean of the non-null
\* samples whose own time lies in [L - period/2, L + period/2), null when there
\* is none; rows follow each other by one period and every sample lies in
\* exactly one bucket.
C12_MidpointBuckets ==
    (rolled.done /\ rollup = "midpoint" /\ IsTick(period)) =>
        LET rows == rolled.rows
            src == RollupSource
        IN /\ rolled.err = ""
           /\ rows = rollup_starting(ShiftedSource(src), period, FALSE)
           /\ \A r \in 1..Len(rows) :
                rows[r].v = MeanOfNonNull(src, InMidpointBucket(src, rows[r].t))
           /\ \A r \in 1..(Len(rows) - 1) : rows[r + 1].t = rows[r].t + period
           /\ \A i \in 1..Len(src) :
                Cardinality({r \in 1..Len(rows) :
                                /\ rows[r].t - period \div 2 <= src[i].t
                                /\ src[i].t < rows[r].t + period \div 2}) = 1

\* Hourly, without upsampling, 00:01 -> 1, 00:33 -> 2, 01:05 -> 10 gives
\* 00:00 -> 1 and 01:00 -> 6, as in the function's examples.
C12_Witness ==
    /\ series = <<Sample(1, FloatV(1, 1)), Sample(33, FloatV(2, 1)), Sample(65, FloatV(10, 1))>>
    /\ period = 60
    /\ ~upsample_first
    /\ rollup = "midpoint"
    /\ rolled = Rolled(<<Sample(0, FloatV(1, 1)), Sample(60, FloatV(6, 1))>>)

\* The first (earliest) sample of a non-empty bucket.
EarliestIn(bucket) == CHOOSE i \in bucket : \A j \in bucket : i <= j

\* C13: rollup_instant returns one row per bucket [start, start + period),
\* labelled by start, following each other by one period, every sample lying in
\* exactly one bucket; the row's value is the value of the first (earliest)
\* sample of its bucket, null when the bucket has no sample.
C13_InstantFirstSample ==
    (rolled.done /\ rollup = "instant") =>
        LET rows == rolled.rows
            src == RollupSource
        IN /\ \A r \in 1..Len(rows) :
                rows[r].v = IF InBucket(src, rows[r].t) = {} THEN None
                            ELSE src[EarliestIn(InBucket(src, rows[r].t))].v
           /\ \A r \in 1..(Len(rows) - 1) : rows[r + 1].t = rows[r].t + period
           /\ \A i \in 1..Len(src) :
                Cardinality({r \in 1..Len(rows) :
                                rows[r].t <= src[i].t /\ src[i].t < rows[r].t + period}) = 1

\* The mean of the non-null observations of series at minute m (None: none).
ObservedAt(m) == MeanOfNonNull(series, {i \in 1..Len(series) : series[i].t = m})

\* The value the upsampled series has at minute m according to the rule
\* "a run of more than 60 consecutive missing minutes remains null": a and b
\* are the nearest observed minutes before and after m (0: none), first and
\* last the ends of the grid.
ClaimedFill(m, a, b, first, last) ==
    IF a = 0 THEN (IF b - first > InterpolateLimit THEN None ELSE ObservedAt(b))
    ELSE IF b = 0 THEN (IF last - a > InterpolateLimit THEN None ELSE ObservedAt(a))
    ELSE IF b - a - 1 > InterpolateLimit THEN None
    ELSE FloatLerp(ObservedAt(a), ObservedAt(b), m - a, b - a)

ClaimedAt(m, observed, first, last) ==
    IF m \in observed THEN ObservedAt(m)
    ELSE ClaimedFill(m, LastOf({x \in observed : x < m}), FirstOf({x \in observed : x > m}),
                     first, last)

UpsampledAsClaimed(rows, first, last, observed) ==
    /\ Len(rows) = last - first + 1
    /\ \A k \in 1..Len(rows) :
          /\ rows[k].t = first + k - 1
          /\ rows[k].v = ClaimedAt(first + k - 1, observed, first, last)

\* C14: upsample returns one row per minute from the first to the last observed
\* minute; a minute with non-null observations has their mean; a run of at
\* most 60 consecutive missing minutes is filled by linear interpolation
\* between the observed minutes around it (by the nearest value at the ends
\* of the series); every minute of a longer run remains null.
C14_LongGapsRemainNull ==
    (rolled.done /\ rollup = "upsample") =>
        UpsampledAsClaimed(rolled.rows, series[1].t, series[Len(series)].t,
                           {m \in series[1].t..series[Len(series)].t : ObservedAt(m) # None})

\* The series of the functions' examples: 00:01 -> 1, 00:33 -> 2, 01:05 -> 10.
ExampleSeries ==
    <<Sample(1, FloatV(1, 1)), Sample(33, FloatV(2, 1)), Sample(65, FloatV(10, 1))>>

\* C15: for the example series rolled up hourly with upsampling,
\* rollup_starting returns exactly the rows 00:00 -> 189.25/59 (= 757/236) and
\* 01:00 -> 9.375 (= 75/8), and rollup_ending exactly the rows 01:00 -> 3.3 and
\* 02:00 -> 9.5.
C15_ExampleRollups ==
    (rolled.done /\ series = ExampleSeries /\ period = 60 /\ upsample_first) =>
        /\ rollup = "starting" =>
              rolled = Rolled(<<Sample(0, FloatV(757, 236)), Sample(60, FloatV(75, 8))>>)
        /\ rollup = "ending" =>
              rolled = Rolled(<<Sample(60, FloatV(33, 10)), Sample(120, FloatV(19, 2))>>)

C15_Witness ==
    /\ series = ExampleSeries
    /\ period = 60
    /\ upsample_first
    /\ rollup = "ending"
    /\ Len(rolled.rows) = 2
    /\ rolled.rows[1] = Sample(60, FloatV(33, 10))

\* C20: a call of rollup_midpoint with a period that is not a fixed duration
\* (the calendar month "MS") ends in an error and returns no rows, with and
\* without upsampling.
C20_MidpointNonFixedPeriodRaises ==
    (rolled.done /\ rollup = "midpoint" /\ ~IsTick(period)) =>
        /\ rolled.err # ""
        /\ rolled.rows = <<>>

C20_Witness ==
    /\ series = ExampleSeries
    /\ period = MonthStart
    /\ upsample_first
    /\ rollup = "midpoint"
    /\ rolled = RolledError("TypeError")

----------------------------------------------------------------------------
(* Claims about fetch_data *)

\* C16: whenever fetch_data is about to resample, the table it hands to the
\* rollup function has a monotonically increasing time index, whatever the
\* order of the years asked for and of the lines in the files.
C16_SortedBeforeResampling ==
    fetch.pc = "rollup" => IsMonotonic(fetch.table)

\* The requested file of the i-th year of the call.
RequestedFile(i) == server.files[FileName(RecentWbanId, call.year[i])]

IsBadLine(l) == ~ParsedFetchLines[l].ok

HasBadLine(file) == \E k \in 1..Len(file.lines) : IsBadLine(file.lines[k])

\* The connection is refused, a requested file cannot be opened, or a line of a
\* requested file does not parse.
SomeFailure ==
    \/ ~server.up
    \/ \E i \in 1..Len(call.year) : ~RequestedFile(i).exists \/ HasBadLine(RequestedFile(i))

RECURSIVE LinesUpTo(_)
LinesUpTo(i) == IF i = 0 THEN 0 ELSE LinesUpTo(i - 1) + Len(RequestedFile(i).lines)

TransportOrParseErrors == {"NOAAFTPConnectionError", "ValidationError", "IndexError"}

\* C17: a call with valid arguments that meets a refused connection, a file
\* that cannot be opened or a line that does not parse ends in that error and
\* returns no rows; fetch_raw_data hands over its list, and fetch_data returns
\* a table, only when every line of every requested file was parsed, one
\* record per line.
C17_FailureAbortsFetch ==
    /\ (fetch.pc = "done" /\ ConfigError(call) = "" /\ SomeFailure) =>
          /\ result.kind = "error"
          /\ result.err \in TransportOrParseErrors
          /\ result.rows = <<>>
    /\ fetch.pc \in {"assemble", "rollup"} =>
          /\ ~SomeFailure
          /\ result.kind = "none"
          /\ Len(fetch.data) = LinesUpTo(Len(call.year))
    /\ result.kind = "table" =>
          /\ ~SomeFailure
          /\ Len(fetch.data) = LinesUpTo(Len(call.year))
          /\ call.period = NoPeriod => Len(result.rows) = LinesUpTo(Len(call.year))

\* The second line of the second file does not parse: the three records read
\* before it are dropped and the error reaches the caller.
C17_Witness ==
    /\ call.year = <<2018, 2019>>
    /\ server.files[FileName(RecentWbanId, 2018)] = FileOf(<<FetchLineA, FetchLineA>>)
    /\ server.files[FileName(RecentWbanId, 2019)] = FileOf(<<FetchLineC, FetchBadLine>>)
    /\ fetch.pc = "done"
    /\ fetch.fi = 2
    /\ Len(fetch.data) = 3
    /\ result = Raised("ValidationError")

ParseErrors == {"ValidationError", "IndexError"}

\* C18: when a line fails to parse during a fetch, the error that reaches the
\* caller names the file being read and the number of the failing line in it.
C18_ParseErrorNamesFileAndLine ==
    (result.kind = "error" /\ result.err \in ParseErrors) =>
        /\ fetch.li >= 1
        /\ result.filename = fetch.filenames[fetch.fi]
        /\ result.lineno = fetch.li

\* The errors caused by the arguments of fetch_data alone.
ConfigurationErrors == {"ValueError: datum", "ValueError: rollup", "TypeError"}

\* C19: a call of fetch_data that ends in a configuration error (an unknown
\* rollup, a datum that is not a mandatory group, a period without fixed length
\* for the midpoint rollup) has resolved no filename, opened no connection and
\* read no file, with and without a period.
C19_ConfigErrorsBeforeIO ==
    (result.kind = "error" /\ result.err \in ConfigurationErrors) =>
        /\ fetch.filenames = <<>>
        /\ fetch.conn = "none"
        /\ fetch.fi = 0

----------------------------------------------------------------------------
(* Claims about the fields the sentinel rule leaves alone *)

\* The quality-code fields of a Record (parser.py:96-226): two of the wind
\* group, one of the ceiling group, two of the visibility group, one each of
\* the air temperature, dew point and sea level pressure groups.
QualityCodeFields ==
    {"wind.direction_quality_code", "wind.speed_quality_code",
     "ceiling.ceiling_quality_code",
     "visibility.distance_quality_code", "visibility.variability_quality_code",
     "air_temperature.quality_code", "dew_point.quality_code",
     "sea_level_pressure.quality_code"}

\* The fields that are identifiers or process names of the control section.
IdentifierFields == {"control.usaf_id", "control.wban_id", "control.qc_process_name"}

\* C30: in every Record parse_line returns, each quality-code field is the
\* one character found at its offset (a "9" stays "9", also when the value
\* it qualifies is absent), and qc_process_name, usaf_id and wban_id are the
\* text found at their offsets, also when it is made of 9s: the sentinel
\* rule is never applied to the eight quality codes and the three
\* identifiers.
C30_SentinelRuleSparesQualityCodes ==
    (Parsed /\ rec.ok) =>
        /\ \A f \in QualityCodeFields :
              /\ Len(LayoutToken(line, f)) = 1
              /\ rec.f[f] = StrV(LayoutToken(line, f))
        /\ \A f \in IdentifierFields : rec.f[f] = StrV(LayoutToken(line, f))

\* C30 witness: a line with the wban_id 99999 and an absent sea level
\* pressure whose quality code is 9 has been parsed: the pressure is None,
\* its quality code "9" and the wban_id "99999".
C30_Witness ==
    /\ Parsed
    /\ rec.ok
    /\ rec.f["sea_level_pressure.pressure"] = None
    /\ rec.f["sea_level_pressure.quality_code"] = StrV(<<"9">>)
    /\ rec.f["control.wban_id"] = StrV(<<"9","9","9","9","9">>)

----------------------------------------------------------------------------
(* Claims about the FTP transport *)

\* The last two or three characters of a name.
LastChars(t, n) == IF Len(t) < n THEN <<>> ELSE SubSeq(t, Len(t) - n + 1, Len(t))

\* C24: read_file_as_bytes returns the gzip-decompressed content of the bytes
\* sent by the server if and only if the filename ends with ".z" or ".gz";
\* for every other filename it returns the bytes sent, unmodified.
C24_DecompressedIffSuffix ==
    (reply.op = "read_file_as_bytes" /\ reply.outcome = "returned") =>
        IF \/ LastChars(reply.filename, 2) = <<".", "z">>
           \/ LastChars(reply.filename, 3) = <<".", "g", "z">>
        THEN reply.content = GzipOpen(reply.sent)
        ELSE reply.content = ReadBytes(reply.sent)

\* C24 witness: the compressed bytes of a file named "d.z" have been
\* retrieved and the stream returned reads as the content of the file.
C24_Witness ==
    /\ reply.op = "read_file_as_bytes"
    /\ reply.outcome = "returned"
    /\ reply.filename = <<"d", ".", "z">>
    /\ reply.sent = GzipCompress(PlainContent)
    /\ reply.content = ReadBytes(PlainContent)

\* The with statement has entered and left the connection, or has not
\* entered it yet.
OutsideBlock == with_block \in {"before", "left"}

\* C27: every failure of the FTP transport surfaces as
\* NOAAFTPConnectionError: a failure to connect or log in (then no connection
\* object is stored), a failed RETR and a read without a connection; in none
\* of these cases is a byte stream returned.
C27_TransportFailuresSurface ==
    (reply.op \in {"__enter__", "read_file_as_bytes"} /\ reply.cause # "") =>
        /\ reply.outcome = "raised"
        /\ reply.err = "NOAAFTPConnectionError"
        /\ reply.op = "__enter__" => ftp = "None"

\* C29: outside the with block (before it is entered, and after it has been
\* left, whatever the body and the QUIT did) conn.ftp is None, and a
\* read_file_as_bytes made there raises NOAAFTPConnectionError.
C29_ReleasedAfterBlock ==
    OutsideBlock =>
        /\ ftp = "None"
        /\ reply.op = "read_file_as_bytes" =>
              (reply.outcome = "raised" /\ reply.err = "NOAAFTPConnectionError")

----------------------------------------------------------------------------
(* Claims about the filenames, the rows and the columns of a fetch *)

\* The rows of the inventory for a year, by their position.
InventoryRowsOf(y) == {k \in 1..Len(call.inventory) : call.inventory[k].year = y}

\* The filenames and the warnings resolved for a year.
FilenamesFor(y) == SelectSeq(fetch.filenames, LAMBDA f : f.year = y)
WarningsFor(y) == SelectSeq(fetch.warnings, LAMBDA w : w.filename.year = y)

\* The warning that no record was found, naming the best-guess filename.
NotFound(filename) == Warning("UserWarning", "get_filenames", filename)

\* C22: once the filenames of a fetch are resolved, each requested year
\* without a record in the inventory has exactly one filename, built from
\* recent_wban_id, and one warning naming it; each year with records has one
\* filename per record, carrying the wban_id of the record, and no warning;
\* no year is left without a filename.
C22_BestGuessFilename ==
    fetch.pc = "connect" =>
        \A i \in 1..Len(call.year) :
            /\ FilenamesFor(call.year[i]) # <<>>
            /\ IF InventoryRowsOf(call.year[i]) = {}
               THEN /\ FilenamesFor(call.year[i]) = <<FileName(RecentWbanId, call.year[i])>>
                    /\ WarningsFor(call.year[i]) =
                          <<NotFound(FileName(RecentWbanId, call.year[i]))>>
               ELSE /\ Len(FilenamesFor(call.year[i])) =
                          Cardinality(InventoryRowsOf(call.year[i]))
                    /\ \A k \in InventoryRowsOf(call.year[i]) :
                          \E j \in 1..Len(FilenamesFor(call.year[i])) :
                              FilenamesFor(call.year[i])[j] =
                                  FileName(call.inventory[k].wban_id, call.year[i])
                    /\ WarningsFor(call.year[i]) = <<>>

\* C22 witness: 2018 has two records and 2019 none: two filenames for 2018,
\* the best guess for 2019 and one warning.
C22_Witness ==
    /\ fetch.pc = "connect"
    /\ call.year = <<2018, 2019>>
    /\ call.inventory = <<FileCount("99999", 2018), FileCount(RecentWbanId, 2018)>>
    /\ fetch.filenames =
          <<FileName("99999", 2018), FileName(RecentWbanId, 2018),
            FileName(RecentWbanId, 2019)>>
    /\ fetch.warnings = <<NotFound(FileName(RecentWbanId, 2019))>>

\* The lines of the first i files of the fetch, in the order they are read.
RECURSIVE LinesRead(_)
LinesRead(i) ==
    IF i = 0 THEN <<>> ELSE LinesRead(i - 1) \o server.files[fetch.filenames[i]].lines

\* The instant a line is stamped with.
InstantOf(l) == Timestamp(ParsedFetchLines[l].f["control.dt"])

\* The rows rows show the lines lines one for one, in their order.
RowPerLine(rows, lines) ==
    /\ Len(rows) = Len(lines)
    /\ \A k \in 1..Len(lines) : rows[k].t = InstantOf(lines[k])

\* C25: the table fetch_data returns without a period has exactly one row
\* per line read, in the order read (the years in the order asked for, the
\* files of a year in the order of the inventory, the lines in file order):
\* no row is dropped, merged, de-duplicated, moved or added, so a fetch of
\* several years has as many rows as its files have lines.
C25_OneRowPerLine ==
    (result.kind = "table" /\ call.period = NoPeriod) =>
        RowPerLine(result.rows, LinesRead(Len(fetch.filenames)))

\* C25 witness: 2019 and 2018 were asked for in that order, the 2018 file
\* holds the same line twice: four rows, the 2019 rows first, the repeated
\* row twice.
C25_Witness ==
    /\ result.kind = "table"
    /\ call.period = NoPeriod
    /\ call.year = <<2019, 2018>>
    /\ server.files[FileName(RecentWbanId, 2018)] = FileOf(<<FetchLineA, FetchLineA>>)
    /\ Len(result.rows) = 4
    /\ result.rows[1].t > result.rows[3].t
    /\ result.rows[3] = result.rows[4]

\* The columns of the mandatory groups: 21 for the whole record, 3 for a
\* temperature group.
TemperatureColumns(g) ==
    IF g = "air_temperature"
    THEN {"air_temperature.temperature_c", "air_temperature.quality_code",
          "air_temperature.temperature_f"}
    ELSE {"dew_point.temperature_c", "dew_point.quality_code", "dew_point.temperature_f"}

AllMandatoryColumns ==
    {"wind.direction_angle", "wind.direction_quality_code", "wind.type_code",
     "wind.speed_rate", "wind.speed_quality_code",
     "ceiling.ceiling_height", "ceiling.ceiling_quality_code",
     "ceiling.ceiling_determination_code", "ceiling.cavok_code",
     "visibility.distance", "visibility.distance_quality_code",
     "visibility.variability_code", "visibility.variability_quality_code",
     "sea_level_pressure.pressure", "sea_level_pressure.quality_code"}
        \cup TemperatureColumns("air_temperature") \cup TemperatureColumns("dew_point")

\* The columns of the control section.
AllControlColumns ==
    {"control.total_variable_characters", "control.usaf_id", "control.wban_id",
     "control.data_source_flag", "control.latitude", "control.longitude",
     "control.report_type_code", "control.elevation", "control.call_letter_id",
     "control.qc_process_name"}

\* The columns a call selects by datum and include_control.
SelectedColumns ==
    (IF call.include_control THEN AllControlColumns ELSE {})
        \cup (IF call.datum = NoDatum THEN AllMandatoryColumns
              ELSE TemperatureColumns(call.datum))

\* C23: the table fetch_data returns with include_quality_codes=False has no
\* quality-code column; without temp_scale and period its columns are exactly
\* the selected columns that are not quality codes, and for the datum
\* "air_temperature" alone they are exactly air_temperature.temperature_c and
\* air_temperature.temperature_f, with and without a period.
C23_QualityCodesExcluded ==
    (result.kind = "table" /\ ~call.include_quality_codes) =>
        /\ result.columns \cap QualityCodeFields = {}
        /\ (call.temp_scale = "" /\ call.period = NoPeriod) =>
              result.columns = SelectedColumns \ QualityCodeFields
        /\ (call.datum = "air_temperature" /\ ~call.include_control /\ call.temp_scale = "") =>
              result.columns =
                  {"air_temperature.temperature_c", "air_temperature.temperature_f"}

\* C23 witness: fetch_data(2018, "air_temperature", include_quality_codes=False)
\* has returned the two temperature columns.
C23_Witness ==
    /\ result.kind = "table"
    /\ call.year = <<2018>>
    /\ call.datum = "air_temperature"
    /\ ~call.include_quality_codes
    /\ ~call.include_control
    /\ call.temp_scale = ""
    /\ call.period = NoPeriod
    /\ result.columns = {"air_temperature.temperature_c", "air_temperature.temperature_f"}

\* The columns that are no measurements: type codes, determination codes and
\* the wind direction.
CodeColumns ==
    {"wind.direction_angle", "wind.type_code", "ceiling.ceiling_determination_code",
     "ceiling.cavok_code", "visibility.variability_code"}

\* C26: the table fetch_data returns for a period holds only aggregable
\* columns of the selection (wind speed, ceiling height, visibility distance,
\* the temperatures, the pressure), never a control column, a quality code, a
\* type code or the wind direction, and consecutive rows are exactly one
\* period apart.
C26_AggregableColumnsOnGrid ==
    (result.kind = "table" /\ call.period # NoPeriod) =>
        /\ result.columns \subseteq SelectedColumns
        /\ result.columns \cap (AllControlColumns \cup QualityCodeFields \cup CodeColumns) = {}
        /\ (call.temp_scale = "") =>
              result.columns =
                  SelectedColumns \ (AllControlColumns \cup QualityCodeFields \cup CodeColumns)
        /\ \A k \in 1..(Len(result.rows) - 1) :
              result.rows[k + 1].t - result.rows[k].t = call.period

\* C26 witness: fetch_data([2019, 2018], period="h", include_control=True) has
\* returned two hourly rows with the eight aggregable columns.
C26_Witness ==
    /\ result.kind = "table"
    /\ call.period = 60
    /\ call.include_control
    /\ call.include_quality_codes
    /\ call.datum = NoDatum
    /\ call.temp_scale = ""
    /\ Cardinality(result.columns) = 8
    /\ "wind.speed_rate" \in result.columns
    /\ Len(result.rows) = 2

\* What the same fetch returns for tz="UTC".
RowsInUtc ==
    IF call.period = NoPeriod THEN fetch.table
    ELSE RollupOf(fetch.table, [call EXCEPT !.tz = "UTC"]).rows

\* C21: the tz option of fetch_data changes only the zone the index is shown
\* in: the table returned for any tz has the rows, in the order and with the
\* values and instants, of the table returned for tz="UTC", and with a period
\* the bucket boundaries are those of UTC (every label is a multiple of the
\* period in UTC), whatever the offset of the zone.
C21_TimeZoneIsDisplayOnly ==
    result.kind = "table" =>
        /\ result.tz = call.tz
        /\ result.rows = RowsInUtc
        /\ call.period # NoPeriod =>
              \A k \in 1..Len(result.rows) : result.rows[k].t % call.period = 0

\* C21 witness: an hourly table has been returned for Asia/Kolkata: its
\* labels fall on the hour of UTC, the half hour of the wall clock.
C21_Witness ==
    /\ result.kind = "table"
    /\ call.tz = "Asia/Kolkata"
    /\ result.tz = "Asia/Kolkata"
    /\ call.period = 60
    /\ Len(result.rows) = 2
    /\ result.rows[1].t % 60 = 0
    /\ WallClock(result.rows[1].t, result.tz) % 60 = 30

(* Claims about the deprecated temperature fetches *)

BestGuessFilenames ==
    {fetch.filenames[i] : i \in {j \in 1..Len(fetch.filenames) :
                                   MetadataMiss(call.inventory, fetch.filenames[j].year)}}

Delivered(w) == \E k \in 1..Len(fetch.warnings) : fetch.warnings[k] = w

Suppressed(w) == \E k \in 1..Len(fetch.ignored) : fetch.ignored[k] = w

\* C28: whenever a fetch uses a best-guess filename because the station has no
\* inventory record for the year, the warning of get_filenames naming that
\* filename has reached the caller and has not been suppressed.
C28_MetadataMissWarningDelivered ==
    \A f \in BestGuessFilenames : Delivered(NotFound(f)) /\ ~Suppressed(NotFound(f))

====
